---- MODULE Spec2Model ----
(***************************************************************************)
(* notesrole: a multi-tenant notes service.  The datastore (tenants,       *)
(* users, notes, invitations) is shared by concurrently running request    *)
(* handlers; every prisma call of a handler is one atomic step, a          *)
(* prisma.$transaction is one atomic step.                                  *)
(***************************************************************************)
EXTENDS Integers, Sequences, FiniteSets, TLC

\* ------------------------------------------------------------------ bounds
\* note ids the datastore can issue in one run
MaxNoteId == 3
\* invitation ids the datastore can issue in one run
MaxInvId == 4
\* last instant of the clock
MaxTime == 2

\* ------------------------------------------------------- program constants
FREE_MAX_NOTES == 3
FREE_MAX_USERS == 5
\* the literal 5 of the invite handler and of the accept handler
INVITE_USER_CAP == 5
ACCEPT_USER_CAP == 5
\* lifetime of an invitation; the clock counts in units of this lifetime
\* (7 days in the source)
INVITE_TTL == 1
Infinity == 1000000

\* --------------------------------------------------------------- universe
Procs == {"p1", "p2"}
Tenants == {"t1", "t2"}
None == "none"
\* an absent string field of a request (strings are sequences of characters)
Undef == <<"undefined">>
\* an absent numeric field of a request
NoNumber == 0 - 1

SlugOf(t) == IF t = "t1" THEN "acme" ELSE "globex"
Slugs == {"acme", "globex", "nosuch"}

VARIABLES tenantPlan, users, notes, nextNoteId, invitations, nextInvId,
          now, proc, out

vars == <<tenantPlan, users, notes, nextNoteId, invitations, nextInvId,
          now, proc, out>>

\* ----------------------------------------------------------------- strings
\* A string is a sequence of characters.
RECURSIVE TrimLeft(_)
TrimLeft(s) == IF s # <<>> /\ Head(s) = " " THEN TrimLeft(Tail(s)) ELSE s

RECURSIVE TrimRight(_)
TrimRight(s) ==
    IF s # <<>> /\ s[Len(s)] = " " THEN TrimRight(SubSeq(s, 1, Len(s) - 1)) ELSE s

Trim(s) == TrimRight(TrimLeft(s))

LowerChar(c) == IF c = "A" THEN "a" ELSE IF c = "B" THEN "b" ELSE c
ToLower(s) == [i \in 1..Len(s) |-> LowerChar(s[i])]

\* case-insensitive substring test (prisma contains, mode insensitive)
ContainsInsensitive(s, sub) ==
    \E i \in 1..(Len(s) - Len(sub) + 1) :
        ToLower(SubSeq(s, i, i + Len(sub) - 1)) = ToLower(sub)

CharCode(c) == IF c = " " THEN 32 ELSE IF c = "A" THEN 65 ELSE IF c = "B" THEN 66
               ELSE IF c = "a" THEN 97 ELSE IF c = "b" THEN 98 ELSE 99

RECURSIVE StrLess(_, _)
StrLess(s, t) ==
    IF t = <<>> THEN FALSE
    ELSE IF s = <<>> THEN TRUE
    ELSE IF Head(s) # Head(t) THEN CharCode(Head(s)) < CharCode(Head(t))
    ELSE StrLess(Tail(s), Tail(t))

\* ------------------------------------------------------------------ tokens
\* The claims a login puts into the token of user u.
TokenOf(u) ==
    [userId |-> u.id, email |-> u.email, role |-> u.role,
     tenantId |-> u.tenantId, tenantSlug |-> SlugOf(u.tenantId)]

\* context of a handler: the verified token's claims
getUserContextFromToken(tok) ==
    [userId |-> tok.userId, email |-> tok.email, role |-> tok.role,
     tenantId |-> tok.tenantId, tenantSlug |-> tok.tenantSlug]

Tokens == {TokenOf(u) : u \in users}

\* --------------------------------------------------------------- responses
\* A response: the status, the error or success message, the notes the
\* body shows, and the fields of the JSON body that tell success from error.
createApiError(error, status) ==
    [status |-> status, msg |-> error, data |-> <<>>,
     body |-> [success |-> FALSE, error |-> error]]
createApiResponse(data, status) ==
    [status |-> status, msg |-> "ok", data |-> data, body |-> [success |-> TRUE]]
\* NextResponse.json({error}, {status}), as the middleware and the invitation
\* routes build their error responses
jsonError(error, status) ==
    [status |-> status, msg |-> error, data |-> <<>>, body |-> [error |-> error]]
createValidationError == createApiError("Validation failed", 400)
createNotFoundError == createApiError("Note not found", 404)
createForbiddenError == createApiError("Forbidden", 403)

\* what the variable out keeps of the last response sent: its status line
StatusLine(resp) == [status |-> resp.status, msg |-> resp.msg]

NoCtx == [userId |-> None, email |-> None, role |-> None, tenantId |-> None,
          tenantSlug |-> None]
NoData == [title |-> Undef, content |-> Undef]

\* a handler between two datastore calls: where it is and its local variables
\* (id: the note or invitation it works on; data: the validated body;
\* email, role, plan, count: what the invitation handlers have read so far)
InFlight(pc, ctx, id, data) ==
    [pc |-> pc, ctx |-> ctx, id |-> id, data |-> data,
     email |-> None, role |-> None, plan |-> None, count |-> 0]
Idle == InFlight("idle", NoCtx, 0, NoData)

\* ---------------------------------------------------------- initial store
SeedUsers ==
    { [id |-> "u1", email |-> "admin@acme", role |-> "ADMIN", tenantId |-> "t1"],
      [id |-> "u2", email |-> "user@acme", role |-> "MEMBER", tenantId |-> "t1"],
      [id |-> "u3", email |-> "admin@globex", role |-> "ADMIN", tenantId |-> "t2"] }

SeedNotes ==
    { [id |-> 1, title |-> <<"a">>, content |-> <<"c">>, authorId |-> "u2", tenantId |-> "t1"],
      [id |-> 2, title |-> <<"a">>, content |-> <<"c">>, authorId |-> "u1", tenantId |-> "t1"] }

Init ==
    /\ tenantPlan = [t \in Tenants |-> "FREE"]
    /\ users = SeedUsers
    /\ notes = SeedNotes
    /\ nextNoteId = Cardinality(SeedNotes) + 1
    /\ invitations = {}
    /\ nextInvId = 1
    /\ now = 0
    /\ proc = [p \in Procs |-> Idle]
    /\ out = [status |-> 0, msg |-> None]

\* ------------------------------------------------------------ subscription
\* SUBSCRIPTION_LIMITS[plan].maxNotes / .maxUsers
\* mutant: every plan gets the FREE limit
MaxNotesOf_anyPlan(plan) == FREE_MAX_NOTES

MaxNotesOf(plan) == IF plan = "FREE" THEN FREE_MAX_NOTES ELSE Infinity
MaxUsersOf(plan) == IF plan = "FREE" THEN FREE_MAX_USERS ELSE Infinity

\* mutant: the limit itself still admits a note
canCreateNote_inclusive(plan, currentNoteCount) == currentNoteCount <= MaxNotesOf(plan)

canCreateNote(plan, currentNoteCount) == currentNoteCount < MaxNotesOf(plan)

NotesOfTenant(t) == {n \in notes : n.tenantId = t}
UsersOfTenant(t) == {u \in users : u.tenantId = t}

\* one query: the tenant row with its note and user counts
getSubscriptionStatus(t) ==
    [plan |-> tenantPlan[t],
     maxNotes |-> MaxNotesOf(tenantPlan[t]),
     currentNotes |-> Cardinality(NotesOfTenant(t)),
     currentUsers |-> Cardinality(UsersOfTenant(t))]

checkNoteLimit(t) ==
    LET status == getSubscriptionStatus(t)
        canCreate == canCreateNote(status.plan, status.currentNotes)
    IN  [canCreate |-> canCreate, limit |-> status.maxNotes]

\* --------------------------------------------------------- note validation
\* Request bodies carry a title and a content, each possibly absent; the
\* optional tags array of the validators is left out (no request sends tags).
\* a JavaScript falsy string: absent or empty
Falsy(x) == x = Undef \/ x = <<>>

\* mutant: the validated data are the body as submitted, untrimmed
validateCreateNote_noTrim(body) ==
    LET titleOk == ~Falsy(body.title) /\ Len(Trim(body.title)) # 0
        contentOk == ~Falsy(body.content) /\ Len(Trim(body.content)) # 0
    IN  IF titleOk /\ contentOk
        THEN [isValid |-> TRUE, data |-> [title |-> body.title, content |-> body.content]]
        ELSE [isValid |-> FALSE, data |-> NoData]

validateCreateNote(body) ==
    LET titleOk == ~Falsy(body.title) /\ Len(Trim(body.title)) # 0
        contentOk == ~Falsy(body.content) /\ Len(Trim(body.content)) # 0
    IN  IF titleOk /\ contentOk
        THEN [isValid |-> TRUE,
              data |-> [title |-> Trim(body.title), content |-> Trim(body.content)]]
        ELSE [isValid |-> FALSE, data |-> NoData]

validateUpdateNote(body) ==
    LET some == ~(Falsy(body.title) /\ Falsy(body.content))
        titleOk == body.title = Undef \/ Len(Trim(body.title)) # 0
        contentOk == body.content = Undef \/ Len(Trim(body.content)) # 0
    IN  IF some /\ titleOk /\ contentOk
        THEN [isValid |-> TRUE,
              data |-> [title |-> IF body.title = Undef THEN Undef ELSE Trim(body.title),
                        content |-> IF body.content = Undef THEN Undef ELSE Trim(body.content)]]
        ELSE [isValid |-> FALSE, data |-> NoData]

\* a well-formed CUID; 0 stands for a malformed id
validateNoteId(id) == id # 0

validateNoteQueryParams(q) ==
    LET pageOk == q.page = NoNumber \/ q.page >= 1
        limitOk == q.limit = NoNumber \/ (q.limit >= 1 /\ q.limit <= 100)
    IN  [isValid |-> pageOk /\ limitOk, data |-> q]

\* ------------------------------------------------------------ note queries
\* mutant: the lookup by id alone
FindNote_anyTenant(id, t) == {n \in notes : n.id = id}

\* prisma.note.findFirst({where: {id, tenantId}})
FindNote(id, t) == {n \in notes : n.id = id /\ n.tenantId = t}

\* what a response shows of a note (id, title, content, author)
NoteView(n) == [id |-> n.id, title |-> n.title, content |-> n.content, authorId |-> n.authorId]

\* mutant: a search clause that replaces the tenant clause
ListWhere_searchOnly(t, search) ==
    {n \in notes :
        IF Falsy(search) THEN n.tenantId = t
        ELSE ContainsInsensitive(n.title, search) \/ ContainsInsensitive(n.content, search)}

\* the where clause of the list query
ListWhere(t, search) ==
    {n \in notes :
        /\ n.tenantId = t
        /\ (Falsy(search) \/ ContainsInsensitive(n.title, search)
                          \/ ContainsInsensitive(n.content, search))}

\* n comes before m under orderBy[sortBy] = sortOrder (ties by id)
Before(n, m, sortBy, sortOrder) ==
    LET lt == IF sortBy = "title"
              THEN StrLess(n.title, m.title) \/ (n.title = m.title /\ n.id < m.id)
              ELSE n.id < m.id
    IN  IF sortOrder = "asc" THEN lt ELSE ~lt

RECURSIVE OrderBy(_, _, _)
OrderBy(S, sortBy, sortOrder) ==
    IF S = {} THEN <<>>
    ELSE LET first == CHOOSE n \in S : \A m \in S \ {n} : Before(n, m, sortBy, sortOrder)
         IN  <<first>> \o OrderBy(S \ {first}, sortBy, sortOrder)

\* prisma.note.findMany({where, orderBy, skip, take})
FindMany(t, q) ==
    LET page == IF q.page = NoNumber THEN 1 ELSE q.page
        limit == IF q.limit = NoNumber THEN 10 ELSE q.limit
        sortBy == IF q.sortBy = None THEN "createdAt" ELSE q.sortBy
        sortOrder == IF q.sortOrder = None THEN "desc" ELSE q.sortOrder
        skip == (page - 1) * limit
        all == OrderBy(ListWhere(t, q.search), sortBy, sortOrder)
        last == IF skip + limit < Len(all) THEN skip + limit ELSE Len(all)
    IN  [i \in 1..(IF last > skip THEN last - skip ELSE 0) |-> NoteView(all[skip + i])]

\* ------------------------------------------------------------------ inputs
PostBodies ==
    { [title |-> <<" ", "a">>, content |-> <<"c", " ">>],
      [title |-> <<" ">>, content |-> <<"c">>] }

PutBodies ==
    { [title |-> <<"B", " ">>, content |-> Undef],
      [title |-> Undef, content |-> Undef] }

NoteIdArgs == 0..MaxNoteId

Query(page, limit, search, sortBy, sortOrder) ==
    [page |-> page, limit |-> limit, search |-> search, sortBy |-> sortBy,
     sortOrder |-> sortOrder]

Queries ==
    { Query(NoNumber, NoNumber, Undef, None, None),
      Query(2, 1, Undef, "title", "asc"),
      Query(1, 1, <<"b">>, None, "asc"),
      Query(NoNumber, NoNumber, <<"C">>, "title", None),
      Query(0, NoNumber, Undef, None, None) }

\* ------------------------------------------------------------- POST /notes
\* validation and the limit check (one read of the tenant with its counts)
NotesPOST_check(p, tok, body) ==
    /\ proc[p].pc = "idle"
    /\ LET context == getUserContextFromToken(tok)
           validation == validateCreateNote(body)
           limitCheck == checkNoteLimit(context.tenantId)
       IN  IF ~validation.isValid
           THEN /\ out' = StatusLine(createValidationError)
                /\ proc' = proc
           ELSE IF ~limitCheck.canCreate
           THEN /\ out' = StatusLine(createApiError("Note limit reached", 403))
                /\ proc' = proc
           ELSE /\ proc' = [proc EXCEPT ![p] = InFlight("note.create", context, 0, validation.data)]
                /\ out' = out
    /\ UNCHANGED <<tenantPlan, users, notes, nextNoteId, invitations, nextInvId, now>>

\* mutant: the insert re-reads the count and gives up when the limit is reached
NotesPOST_insert_recheck(p, maxId) ==
    /\ proc[p].pc = "note.create"
    /\ nextNoteId <= maxId
    /\ IF checkNoteLimit(proc[p].ctx.tenantId).canCreate
       THEN LET note == [id |-> nextNoteId, title |-> proc[p].data.title,
                         content |-> proc[p].data.content,
                         authorId |-> proc[p].ctx.userId,
                         tenantId |-> proc[p].ctx.tenantId]
            IN  /\ notes' = notes \cup {note}
                /\ nextNoteId' = nextNoteId + 1
                /\ out' = StatusLine(createApiResponse(<<NoteView(note)>>, 201))
       ELSE /\ out' = StatusLine(createApiError("Note limit reached", 403))
            /\ UNCHANGED <<notes, nextNoteId>>
    /\ proc' = [proc EXCEPT ![p] = Idle]
    /\ UNCHANGED <<tenantPlan, users, invitations, nextInvId, now>>

\* prisma.note.create, then the 201 response; the datastore has room for
\* note ids up to maxId
NotesPOST_insert(p, maxId) ==
    /\ proc[p].pc = "note.create"
    /\ nextNoteId <= maxId
    /\ LET note == [id |-> nextNoteId, title |-> proc[p].data.title,
                    content |-> proc[p].data.content,
                    authorId |-> proc[p].ctx.userId, tenantId |-> proc[p].ctx.tenantId]
       IN  /\ notes' = notes \cup {note}
           /\ nextNoteId' = nextNoteId + 1
           /\ out' = StatusLine(createApiResponse(<<NoteView(note)>>, 201))
    /\ proc' = [proc EXCEPT ![p] = Idle]
    /\ UNCHANGED <<tenantPlan, users, invitations, nextInvId, now>>

NotesPOST_create(p) == NotesPOST_insert(p, MaxNoteId)

\* -------------------------------------------------------------- GET /notes
\* the response of the list handler to a request with token tok and query q
NotesGET_response(tok, q) ==
    LET context == getUserContextFromToken(tok)
        queryValidation == validateNoteQueryParams(q)
    IN  IF ~queryValidation.isValid
        THEN createValidationError
        ELSE createApiResponse(FindMany(context.tenantId, queryValidation.data), 200)

NotesGET(p, tok, q) ==
    /\ proc[p].pc = "idle"
    /\ out' = StatusLine(NotesGET_response(tok, q))
    /\ UNCHANGED <<tenantPlan, users, notes, nextNoteId, invitations, nextInvId, now, proc>>

\* --------------------------------------------------------- GET /notes/{id}
\* the response of the handler to a request with token tok for note id
NoteGET_response(tok, id) ==
    LET context == getUserContextFromToken(tok)
        found == FindNote(id, context.tenantId)
    IN  IF ~validateNoteId(id)
        THEN createValidationError
        ELSE IF found = {}
        THEN createNotFoundError
        ELSE createApiResponse(<<NoteView(CHOOSE n \in found : TRUE)>>, 200)

NoteGET(p, tok, id) ==
    /\ proc[p].pc = "idle"
    /\ out' = StatusLine(NoteGET_response(tok, id))
    /\ UNCHANGED <<tenantPlan, users, notes, nextNoteId, invitations, nextInvId, now, proc>>

\* ------------------------------------------------- PUT, DELETE /notes/{id}
\* mutant: authors only, admins included
OwnershipDenied_authorOnly(existingNote, context) ==
    existingNote.authorId # context.userId

\* the inline ownership check of PUT and DELETE: TRUE when the caller is refused
OwnershipDenied(existingNote, context) ==
    existingNote.authorId # context.userId /\ context.role # "ADMIN"

\* validation, findFirst({id, tenantId}) and the ownership check
NotePUT_find(p, tok, id, body) ==
    /\ proc[p].pc = "idle"
    /\ LET context == getUserContextFromToken(tok)
           validation == validateUpdateNote(body)
           found == FindNote(id, context.tenantId)
       IN  IF ~validateNoteId(id) \/ ~validation.isValid
           THEN /\ out' = StatusLine(createValidationError)
                /\ proc' = proc
           ELSE IF found = {}
           THEN /\ out' = StatusLine(createNotFoundError)
                /\ proc' = proc
           ELSE IF OwnershipDenied(CHOOSE n \in found : TRUE, context)
           THEN /\ out' = StatusLine(createApiError("You can only edit your own notes", 403))
                /\ proc' = proc
           ELSE /\ proc' = [proc EXCEPT ![p] = InFlight("note.update", context, id, validation.data)]
                /\ out' = out
    /\ UNCHANGED <<tenantPlan, users, notes, nextNoteId, invitations, nextInvId, now>>

\* prisma.note.update({where: {id}, data})
\* mutant: the update also hands the note to the tenant's admin
UpdateNote_reassign(n, data) ==
    [n EXCEPT !.title = IF data.title = Undef THEN @ ELSE data.title,
              !.content = IF data.content = Undef THEN @ ELSE data.content,
              !.authorId = "u1"]

UpdateNote(n, data) ==
    [n EXCEPT !.title = IF data.title = Undef THEN @ ELSE data.title,
              !.content = IF data.content = Undef THEN @ ELSE data.content]

NotePUT_update(p) ==
    /\ proc[p].pc = "note.update"
    /\ LET context == proc[p].ctx
           target == {n \in notes : n.id = proc[p].id}
       IN  IF target = {}
           THEN \* Record to update not found
                /\ out' = StatusLine(createNotFoundError)
                /\ notes' = notes
           ELSE LET old == CHOOSE n \in target : TRUE
                    updatedNote == UpdateNote(old, proc[p].data)
                IN  /\ notes' = (notes \ {old}) \cup {updatedNote}
                    /\ out' = StatusLine(createApiResponse(<<NoteView(updatedNote)>>, 200))
    /\ proc' = [proc EXCEPT ![p] = Idle]
    /\ UNCHANGED <<tenantPlan, users, nextNoteId, invitations, nextInvId, now>>

NoteDELETE_find(p, tok, id) ==
    /\ proc[p].pc = "idle"
    /\ LET context == getUserContextFromToken(tok)
           found == FindNote(id, context.tenantId)
       IN  IF ~validateNoteId(id)
           THEN /\ out' = StatusLine(createValidationError)
                /\ proc' = proc
           ELSE IF found = {}
           THEN /\ out' = StatusLine(createNotFoundError)
                /\ proc' = proc
           ELSE IF OwnershipDenied(CHOOSE n \in found : TRUE, context)
           THEN /\ out' = StatusLine(createApiError("You can only delete your own notes", 403))
                /\ proc' = proc
           ELSE /\ proc' = [proc EXCEPT ![p] = InFlight("note.delete", context, id, NoData)]
                /\ out' = out
    /\ UNCHANGED <<tenantPlan, users, notes, nextNoteId, invitations, nextInvId, now>>

\* prisma.note.delete({where: {id}})
NoteDELETE_delete(p) ==
    /\ proc[p].pc = "note.delete"
    /\ LET context == proc[p].ctx
           target == {n \in notes : n.id = proc[p].id}
       IN  IF target = {}
           THEN \* Record to delete does not exist
                /\ out' = StatusLine(createNotFoundError)
                /\ notes' = notes
           ELSE /\ notes' = notes \ target
                /\ out' = StatusLine(createApiResponse(<<NoteView(CHOOSE n \in target : TRUE)>>, 200))
    /\ proc' = [proc EXCEPT ![p] = Idle]
    /\ UNCHANGED <<tenantPlan, users, nextNoteId, invitations, nextInvId, now>>

\* ------------------------------------------- POST /tenants/{slug}/upgrade
UPGRADE_SUBSCRIPTION == {"ADMIN"}
\* mutant: every role holds every permission
hasPermission_anyRole(role, allowedRoles) == TRUE

hasPermission(role, allowedRoles) == role \in allowedRoles

\* requirePermission, findUnique({slug}) and the tenant check
UpgradePOST_find(p, tok, slug) ==
    /\ proc[p].pc = "idle"
    /\ LET context == getUserContextFromToken(tok)
           tenant == {t \in Tenants : SlugOf(t) = slug}
       IN  IF ~hasPermission(context.role, UPGRADE_SUBSCRIPTION)
           THEN /\ out' = StatusLine(createForbiddenError)
                /\ proc' = proc
           ELSE IF tenant = {}
           THEN /\ out' = StatusLine(createApiError("Tenant not found", 404))
                /\ proc' = proc
           ELSE IF tenant # {context.tenantId}
           THEN /\ out' = StatusLine(createForbiddenError)
                /\ proc' = proc
           ELSE /\ proc' = [proc EXCEPT ![p] = InFlight("upgradeTenant", context, 0, NoData)]
                /\ out' = out
    /\ UNCHANGED <<tenantPlan, users, notes, nextNoteId, invitations, nextInvId, now>>

\* upgradeTenant: findUnique({id}) and the plan test
UpgradePOST_read(p) ==
    /\ proc[p].pc = "upgradeTenant"
    /\ IF tenantPlan[proc[p].ctx.tenantId] = "PRO"
       THEN /\ out' = StatusLine(createApiError("Tenant is already on PRO plan", 400))
            /\ proc' = [proc EXCEPT ![p] = Idle]
       ELSE /\ proc' = [proc EXCEPT ![p].pc = "tenant.update"]
            /\ out' = out
    /\ UNCHANGED <<tenantPlan, users, notes, nextNoteId, invitations, nextInvId, now>>

\* mutant: the update switches the plan, PRO back to FREE
UpgradePOST_update_switch(p) ==
    /\ proc[p].pc = "tenant.update"
    /\ tenantPlan' = [tenantPlan EXCEPT ![proc[p].ctx.tenantId] =
                         IF @ = "PRO" THEN "FREE" ELSE "PRO"]
    /\ out' = StatusLine(createApiResponse(<<>>, 200))
    /\ proc' = [proc EXCEPT ![p] = Idle]
    /\ UNCHANGED <<users, notes, nextNoteId, invitations, nextInvId, now>>

\* upgradeTenant: prisma.tenant.update({data: {plan: PRO}})
UpgradePOST_update(p) ==
    /\ proc[p].pc = "tenant.update"
    /\ tenantPlan' = [tenantPlan EXCEPT ![proc[p].ctx.tenantId] = "PRO"]
    /\ out' = StatusLine(createApiResponse(<<>>, 200))
    /\ proc' = [proc EXCEPT ![p] = Idle]
    /\ UNCHANGED <<users, notes, nextNoteId, invitations, nextInvId, now>>

\* ------------------------------------------------------ POST /users/invite
\* z.string().email(): the addresses of the model, all but "bad"
ValidEmail(email) == email # "bad"
InviteRoles == {"ADMIN", "MEMBER"}

\* prisma.user.findFirst({where: {email, tenantId}})
FindUser(email, t) == {u \in users : u.email = email /\ u.tenantId = t}

\* prisma.invitation.findFirst / count with status PENDING in a tenant
PendingOfTenant(t) == {i \in invitations : i.tenantId = t /\ i.status = "PENDING"}

\* the role check, the body validation and user.findFirst
InvitePOST_user(p, tok, email, role) ==
    /\ proc[p].pc = "idle"
    /\ LET userContext == getUserContextFromToken(tok)
       IN  IF userContext.role # "ADMIN"
           THEN /\ out' = StatusLine(jsonError("Admin access required", 403))
                /\ proc' = proc
           ELSE IF ~ValidEmail(email) \/ role \notin InviteRoles
           THEN /\ out' = StatusLine(jsonError("Invalid request data", 400))
                /\ proc' = proc
           ELSE IF FindUser(email, userContext.tenantId) # {}
           THEN /\ out' = StatusLine(jsonError("User already exists", 409))
                /\ proc' = proc
           ELSE /\ proc' = [proc EXCEPT ![p] =
                               [InFlight("invite.invitation.findFirst", userContext, 0, NoData)
                                   EXCEPT !.email = email, !.role = role]]
                /\ out' = out
    /\ UNCHANGED <<tenantPlan, users, notes, nextNoteId, invitations, nextInvId, now>>

\* invitation.findFirst({email, tenantId, status: PENDING})
InvitePOST_pending(p) ==
    /\ proc[p].pc = "invite.invitation.findFirst"
    /\ IF \E i \in PendingOfTenant(proc[p].ctx.tenantId) : i.email = proc[p].email
       THEN /\ out' = StatusLine(jsonError("Invitation already sent", 409))
            /\ proc' = [proc EXCEPT ![p] = Idle]
       ELSE /\ proc' = [proc EXCEPT ![p].pc = "invite.tenant.findUnique"]
            /\ out' = out
    /\ UNCHANGED <<tenantPlan, users, notes, nextNoteId, invitations, nextInvId, now>>

\* tenant.findUnique({id})
InvitePOST_tenant(p) ==
    /\ proc[p].pc = "invite.tenant.findUnique"
    /\ proc' = [proc EXCEPT ![p].pc = "invite.user.count",
                            ![p].plan = tenantPlan[proc[p].ctx.tenantId]]
    /\ UNCHANGED <<tenantPlan, users, notes, nextNoteId, invitations, nextInvId, now, out>>

\* user.count({tenantId})
InvitePOST_userCount(p) ==
    /\ proc[p].pc = "invite.user.count"
    /\ proc' = [proc EXCEPT ![p].pc = "invite.invitation.count",
                            ![p].count = Cardinality(UsersOfTenant(proc[p].ctx.tenantId))]
    /\ UNCHANGED <<tenantPlan, users, notes, nextNoteId, invitations, nextInvId, now, out>>

\* mutant: the invitation being issued is not counted
InviteCapExceeded_notCountingNew(plan, currentUserCount, pendingInvitationCount) ==
    plan = "FREE" /\ currentUserCount + pendingInvitationCount > INVITE_USER_CAP

\* the cap test of the invite handler on the counts it has read
InviteCapExceeded(plan, currentUserCount, pendingInvitationCount) ==
    LET totalPotentialUsers == currentUserCount + pendingInvitationCount + 1
    IN  plan = "FREE" /\ totalPotentialUsers > INVITE_USER_CAP

\* invitation.count({tenantId, status: PENDING}) and the cap test
InvitePOST_pendingCount(p) ==
    /\ proc[p].pc = "invite.invitation.count"
    /\ LET pendingInvitationCount == Cardinality(PendingOfTenant(proc[p].ctx.tenantId))
       IN  IF InviteCapExceeded(proc[p].plan, proc[p].count, pendingInvitationCount)
           THEN /\ out' = StatusLine(jsonError("User limit exceeded", 403))
                /\ proc' = [proc EXCEPT ![p] = Idle]
           ELSE /\ proc' = [proc EXCEPT ![p].pc = "invite.invitation.create"]
                /\ out' = out
    /\ UNCHANGED <<tenantPlan, users, notes, nextNoteId, invitations, nextInvId, now>>

\* getExpirationDate
getExpirationDate == now + INVITE_TTL

\* invitation.create; the token of an invitation is its id
InvitePOST_create(p) ==
    /\ proc[p].pc = "invite.invitation.create"
    /\ nextInvId <= MaxInvId
    /\ invitations' = invitations \cup
           {[id |-> nextInvId, email |-> proc[p].email, role |-> proc[p].role, status |-> "PENDING",
             tenantId |-> proc[p].ctx.tenantId, invitedBy |-> proc[p].ctx.userId,
             expiresAt |-> getExpirationDate]}
    /\ nextInvId' = nextInvId + 1
    /\ out' = StatusLine(createApiResponse(<<>>, 201))
    /\ proc' = [proc EXCEPT ![p] = Idle]
    /\ UNCHANGED <<tenantPlan, users, notes, nextNoteId, now>>

\* ----------------------------------------------- POST /users/invite/accept
\* acceptInvitationSchema: passwords of the model are "longpass1" and "short"
ValidAccept(password, confirmPassword) ==
    password # "short" /\ password = confirmPassword

\* invitation.findFirst({where: {token, status: PENDING}})
FindPendingByToken(token) == {i \in invitations : i.id = token /\ i.status = "PENDING"}

\* the expiry test of the accept and validate handlers at the instant now
HasExpired(invitation) == invitation.expiresAt < now

\* invitation.update({where: {id}, data: {status}})
SetStatus(id, status) ==
    {IF i.id = id THEN [i EXCEPT !.status = status] ELSE i : i \in invitations}

InvitationById(id) == CHOOSE i \in invitations : i.id = id

\* ids of the users the store creates, in order of creation
UserIds == <<"u1", "u2", "u3", "u4", "u5", "u6", "u7", "u8", "u9">>

\* the body validation, invitation.findFirst and the expiry test
AcceptPOST_find(p, token, password, confirmPassword) ==
    /\ proc[p].pc = "idle"
    /\ LET found == FindPendingByToken(token)
       IN  IF ~ValidAccept(password, confirmPassword)
           THEN /\ out' = StatusLine(jsonError("Invalid request data", 400))
                /\ proc' = proc
           ELSE IF found = {}
           THEN /\ out' = StatusLine(jsonError("Invalid or expired invitation token", 404))
                /\ proc' = proc
           ELSE LET invitation == CHOOSE i \in found : TRUE
                    next == IF HasExpired(invitation)
                            THEN "accept.invitation.expire" ELSE "accept.user.findFirst"
                IN  /\ proc' = [proc EXCEPT ![p] =
                                   [InFlight(next, NoCtx, invitation.id, NoData)
                                       EXCEPT !.email = invitation.email,
                                              !.role = invitation.role,
                                              !.plan = tenantPlan[invitation.tenantId]]]
                    /\ out' = out
    /\ UNCHANGED <<tenantPlan, users, notes, nextNoteId, invitations, nextInvId, now>>

\* invitation.update({status: EXPIRED}) of the accept and of the validate handler
AcceptPOST_expire(p) ==
    /\ proc[p].pc = "accept.invitation.expire"
    /\ invitations' = SetStatus(proc[p].id, "EXPIRED")
    /\ out' = StatusLine(jsonError("Invitation has expired", 410))
    /\ proc' = [proc EXCEPT ![p] = Idle]
    /\ UNCHANGED <<tenantPlan, users, notes, nextNoteId, nextInvId, now>>

\* user.findFirst({email, tenantId})
AcceptPOST_user(p) ==
    /\ proc[p].pc = "accept.user.findFirst"
    /\ proc' = [proc EXCEPT ![p].pc =
                   IF FindUser(proc[p].email, InvitationById(proc[p].id).tenantId) # {}
                   THEN "accept.invitation.accepted" ELSE "accept.user.count"]
    /\ UNCHANGED <<tenantPlan, users, notes, nextNoteId, invitations, nextInvId, now, out>>

\* the user exists already: invitation.update({status: ACCEPTED}) and 409
AcceptPOST_exists(p) ==
    /\ proc[p].pc = "accept.invitation.accepted"
    /\ invitations' = SetStatus(proc[p].id, "ACCEPTED")
    /\ out' = StatusLine(jsonError("User already exists", 409))
    /\ proc' = [proc EXCEPT ![p] = Idle]
    /\ UNCHANGED <<tenantPlan, users, notes, nextNoteId, nextInvId, now>>

\* user.count({tenantId}) and the cap test on the plan read with the invitation
AcceptPOST_count(p) ==
    /\ proc[p].pc = "accept.user.count"
    /\ LET currentUserCount == Cardinality(UsersOfTenant(InvitationById(proc[p].id).tenantId))
       IN  IF proc[p].plan = "FREE" /\ currentUserCount >= ACCEPT_USER_CAP
           THEN /\ out' = StatusLine(jsonError("User limit exceeded", 403))
                /\ proc' = [proc EXCEPT ![p] = Idle]
           ELSE /\ proc' = [proc EXCEPT ![p].pc = "accept.transaction"]
                /\ out' = out
    /\ UNCHANGED <<tenantPlan, users, notes, nextNoteId, invitations, nextInvId, now>>

\* mutant: a user table without the index
UniqueEmailPerTenant_noIndex(email, t) == TRUE

\* the unique index of the user table on (email, tenantId)
UniqueEmailPerTenant(email, t) == FindUser(email, t) = {}

\* mutant: the two writes without a transaction, the invitation first; the
\* handler may die between them
AcceptPOST_transaction_twoWrites(p) ==
    /\ proc[p].pc = "accept.transaction"
    /\ LET invitation == InvitationById(proc[p].id)
       IN  /\ invitations' = SetStatus(proc[p].id, "ACCEPTED")
           /\ \/ /\ UniqueEmailPerTenant(proc[p].email, invitation.tenantId)
                 /\ Cardinality(users) < Len(UserIds)
                 /\ users' = users \cup
                        {[id |-> UserIds[Cardinality(users) + 1], email |-> proc[p].email,
                          role |-> proc[p].role, tenantId |-> invitation.tenantId]}
                 /\ out' = StatusLine(createApiResponse(<<>>, 201))
              \/ /\ users' = users
                 /\ out' = out
    /\ proc' = [proc EXCEPT ![p] = Idle]
    /\ UNCHANGED <<tenantPlan, notes, nextNoteId, nextInvId, now>>

\* prisma.$transaction: user.create and invitation.update({status: ACCEPTED});
\* a unique violation of user.create rolls the transaction back (500)
AcceptPOST_transaction(p) ==
    /\ proc[p].pc = "accept.transaction"
    /\ LET invitation == InvitationById(proc[p].id)
       IN  IF ~UniqueEmailPerTenant(proc[p].email, invitation.tenantId)
           THEN /\ out' = StatusLine(jsonError("Internal server error", 500))
                /\ UNCHANGED <<users, invitations>>
           ELSE /\ Cardinality(users) < Len(UserIds)
                /\ users' = users \cup
                       {[id |-> UserIds[Cardinality(users) + 1], email |-> proc[p].email,
                         role |-> proc[p].role, tenantId |-> invitation.tenantId]}
                /\ invitations' = SetStatus(proc[p].id, "ACCEPTED")
                /\ out' = StatusLine(createApiResponse(<<>>, 201))
    /\ proc' = [proc EXCEPT ![p] = Idle]
    /\ UNCHANGED <<tenantPlan, notes, nextNoteId, nextInvId, now>>

\* ------------------------------------------ GET /users/invite/accept?token=
\* invitation.findFirst and the expiry test
ValidateGET_find(p, token) ==
    /\ proc[p].pc = "idle"
    /\ LET found == FindPendingByToken(token)
       IN  IF token = 0
           THEN /\ out' = StatusLine(jsonError("Token is required", 400))
                /\ proc' = proc
           ELSE IF found = {}
           THEN /\ out' = StatusLine(jsonError("Invalid invitation token", 404))
                /\ proc' = proc
           ELSE LET invitation == CHOOSE i \in found : TRUE
                    next == IF HasExpired(invitation)
                            THEN "accept.invitation.expire" ELSE "validate.user.findFirst"
                IN  /\ proc' = [proc EXCEPT ![p] =
                                   [InFlight(next, NoCtx, invitation.id, NoData)
                                       EXCEPT !.email = invitation.email,
                                              !.role = invitation.role]]
                    /\ out' = out
    /\ UNCHANGED <<tenantPlan, users, notes, nextNoteId, invitations, nextInvId, now>>

\* user.findFirst({email, tenantId}) and the answer
ValidateGET_user(p) ==
    /\ proc[p].pc = "validate.user.findFirst"
    /\ out' = IF FindUser(proc[p].email, InvitationById(proc[p].id).tenantId) # {}
              THEN StatusLine(jsonError("User already exists", 409))
              ELSE StatusLine(createApiResponse(<<>>, 200))
    /\ proc' = [proc EXCEPT ![p] = Idle]
    /\ UNCHANGED <<tenantPlan, users, notes, nextNoteId, invitations, nextInvId, now>>

\* ------------------------------------------------------------ environment
\* time passes
Tick ==
    /\ now < MaxTime
    /\ now' = now + 1
    /\ UNCHANGED <<tenantPlan, users, notes, nextNoteId, invitations, nextInvId, proc, out>>

\* the server dies while a handler is between two datastore calls: the
\* handler is gone, what it committed stays, an open transaction is rolled back
Crash(p) ==
    /\ proc[p].pc # "idle"
    /\ proc' = [proc EXCEPT ![p] = Idle]
    /\ UNCHANGED <<tenantPlan, users, notes, nextNoteId, invitations, nextInvId, now, out>>

\* ---------------------------------------------------------- specification
\* the note handlers, run by two concurrent requests
Next ==
    \E p \in Procs :
        \/ \E tok \in Tokens, body \in PostBodies : NotesPOST_check(p, tok, body)
        \/ NotesPOST_create(p)
        \/ \E tok \in Tokens, q \in Queries : NotesGET(p, tok, q)
        \/ \E tok \in Tokens, id \in NoteIdArgs : NoteGET(p, tok, id)
        \/ \E tok \in Tokens, id \in NoteIdArgs, body \in PutBodies : NotePUT_find(p, tok, id, body)
        \/ NotePUT_update(p)
        \/ \E tok \in Tokens, id \in NoteIdArgs : NoteDELETE_find(p, tok, id)
        \/ NoteDELETE_delete(p)

Spec == Init /\ [][Next]_vars

\* ------------------------------------------------- properties of Spec
\* the tenant of the stored note with this id
TenantOfNote(id) == (CHOOSE n \in notes : n.id = id).tenantId
NoteIds == {n.id : n \in notes}

\* every note a response shows is a stored note of tenant t
ShowsOnlyNotesOf(resp, t) ==
    \A i \in DOMAIN resp.data :
        resp.data[i].id \in NoteIds /\ TenantOfNote(resp.data[i].id) = t

\* C1: whatever notes have been created, updated and deleted, a list request
\* (any page, limit, search, sort) and a get request with a token of tenant T
\* show only notes whose tenantId is T, never a note of another tenant.
C1_ReadIsolation ==
    \A tok \in Tokens :
        /\ \A q \in Queries : ShowsOnlyNotesOf(NotesGET_response(tok, q), tok.tenantId)
        /\ \A id \in NoteIdArgs : ShowsOnlyNotesOf(NoteGET_response(tok, id), tok.tenantId)

\* C1 witness: both tenants hold notes, and a user of t2 who lists and gets
\* is shown notes (of t2) while t1's notes are in the store.
C1_Witness ==
    /\ NotesOfTenant("t1") # {}
    /\ \E tok \in Tokens, q \in Queries, n \in NotesOfTenant("t2") :
        /\ tok.tenantId = "t2"
        /\ q.search # Undef
        /\ NotesGET_response(tok, q).data # <<>>
        /\ NoteGET_response(tok, n.id).status = 200
        /\ \E m \in NotesOfTenant("t1") : NoteGET_response(tok, m.id).status = 404
    /\ out.status = 200

\* the request that takes a step from proc to proc' on the note with this id
WriterOf(p, id) ==
    /\ proc[p].pc \in {"note.create", "note.update", "note.delete"}
    /\ proc'[p].pc = "idle"
    /\ proc[p].pc # "note.create" => proc[p].id = id

\* the ids whose note a step changes, removes or adds
Touched == {n.id : n \in (notes \ notes') \cup (notes' \ notes)}
TenantsOfId(id) == {n.tenantId : n \in {m \in notes \cup notes' : m.id = id}}

\* C2: in every interleaving, a step that modifies, deletes (or adds) a note
\* is the write of a request whose token carries that note's tenantId: a PUT
\* or DELETE with a token of T2 never changes a note of T1.
C2_WriteIsolation ==
    [][\A id \in Touched :
          \E p \in Procs : WriterOf(p, id) /\ TenantsOfId(id) = {proc[p].ctx.tenantId}]_vars

\* C2 witness: notes of t1 were updated and deleted by t1's users, t2 holds a
\* note of its own, and the last answer was a 404 (the answer a PUT or DELETE
\* across tenants gets) while a PUT of t2's admin is in flight on t2's note.
C2_Witness ==
    /\ \E n \in NotesOfTenant("t1") : n.title = <<"B">>
    /\ Cardinality(notes) < nextNoteId - 1
    /\ out = StatusLine(createNotFoundError)
    /\ \E p \in Procs :
        /\ proc[p].pc = "note.update"
        /\ proc[p].ctx.tenantId = "t2"
        /\ \E n \in NotesOfTenant("t2") : n.id = proc[p].id

\* C5: a PUT or DELETE on an existing note of the caller's tenant goes on to
\* its write exactly when the note's authorId is the token's userId or the
\* token's role is ADMIN; otherwise it is answered 403 and nothing changes;
\* and a step that changes or deletes a note is the write of its author or
\* of an ADMIN.
C5_OwnerOrAdmin ==
    [][/\ \A p \in Procs :
            (proc[p].pc = "idle" /\ (proc'[p] # proc[p] \/ out' # out))
            => \A tok \in Tokens, id \in NoteIdArgs :
                 FindNote(id, tok.tenantId) # {}
                 => LET n == CHOOSE m \in FindNote(id, tok.tenantId) : TRUE
                        allowed == n.authorId = tok.userId \/ tok.role = "ADMIN"
                    IN  /\ \A body \in PutBodies :
                             (validateUpdateNote(body).isValid /\ NotePUT_find(p, tok, id, body))
                             => IF allowed
                                THEN proc'[p].pc = "note.update" /\ proc'[p].id = id
                                ELSE /\ out' = StatusLine(createApiError("You can only edit your own notes", 403))
                                     /\ notes' = notes /\ proc' = proc
                        /\ NoteDELETE_find(p, tok, id)
                             => IF allowed
                                THEN proc'[p].pc = "note.delete" /\ proc'[p].id = id
                                ELSE /\ out' = StatusLine(createApiError("You can only delete your own notes", 403))
                                     /\ notes' = notes /\ proc' = proc
       /\ \A n \in notes \ notes' :
            \E p \in Procs :
                /\ WriterOf(p, n.id)
                /\ n.authorId = proc[p].ctx.userId \/ proc[p].ctx.role = "ADMIN"
                /\ proc[p].pc = "note.delete" => n.id \notin {m.id : m \in notes'}
                /\ proc[p].pc = "note.update" => UpdateNote(n, proc[p].data) \in notes'
      ]_vars

\* C5 witness: an ADMIN's PUT on a note written by another user has passed the
\* check and is about to write, and a MEMBER's PUT on a note of another author
\* has just been answered 403.
C5_Witness ==
    /\ out = StatusLine(createApiError("You can only edit your own notes", 403))
    /\ \E p \in Procs, n \in notes :
        /\ proc[p].pc = "note.update"
        /\ proc[p].id = n.id
        /\ proc[p].ctx.role = "ADMIN"
        /\ n.authorId # proc[p].ctx.userId
    /\ \E n \in notes, u \in users :
        u.role = "MEMBER" /\ u.tenantId = n.tenantId /\ n.authorId # u.id

\* the id passes validateNoteId and names no note of tenant t: a note of
\* another tenant, or no note at all
ForeignId(id, t) == \E n \in notes : n.id = id /\ n.tenantId # t
AbsentId(id) == validateNoteId(id) /\ id \notin NoteIds

\* C16: for a caller of tenant T, GET, PUT and DELETE /notes/{id} answer an
\* id of another tenant's note exactly as they answer an id no note has:
\* 404 'Note not found' (400 for a PUT whose body is invalid), and the
\* datastore and the handlers are left as they were.
C16_ForeignLikeAbsent ==
    [][\A p \in Procs :
          (proc[p].pc = "idle" /\ (proc'[p] # proc[p] \/ out' # out))
          => \A tok \in Tokens, id \in NoteIdArgs :
               (ForeignId(id, tok.tenantId) \/ AbsentId(id))
               => /\ NoteGET_response(tok, id) = createNotFoundError
                  /\ NoteGET(p, tok, id)
                       => out' = StatusLine(createNotFoundError) /\ notes' = notes
                  /\ \A body \in PutBodies :
                       NotePUT_find(p, tok, id, body)
                       => /\ out' = IF validateUpdateNote(body).isValid
                                    THEN StatusLine(createNotFoundError)
                                    ELSE StatusLine(createValidationError)
                          /\ notes' = notes /\ proc' = proc
                  /\ NoteDELETE_find(p, tok, id)
                       => /\ out' = StatusLine(createNotFoundError)
                          /\ notes' = notes /\ proc' = proc]_vars

\* C16 witness: globex's admin has just been answered 404 while the store
\* holds a note of acme (an id of another tenant) and lacks a note it once
\* held (an id of no note), and both ids get the same answer.
C16_Witness ==
    /\ out = StatusLine(createNotFoundError)
    /\ \A p \in Procs : proc[p].pc = "idle"
    /\ \E tok \in Tokens, id1, id2 \in NoteIdArgs :
        /\ tok.tenantId = "t2"
        /\ ForeignId(id1, "t2")
        /\ AbsentId(id2) /\ id2 < nextNoteId
        /\ NoteGET_response(tok, id1) = NoteGET_response(tok, id2)

\* the note a POST stores and GET /notes/{id} shows, for a given title and content
Created(id, title, content, authorId) ==
    createApiResponse(<<[id |-> id, title |-> title, content |-> content,
                         authorId |-> authorId]>>, 200)

Submitted(body) == [title |-> body.title, content |-> body.content]
Trimmed(body) == [title |-> Trim(body.title), content |-> Trim(body.content)]

\* the round trip of a POST /notes, for the body as submitted or trimmed:
\* the accepted request carries that data and the token's user to its create
\* step, and after the create step a GET /notes/{id} with the new id and a
\* token of the same tenant answers 200 with that title, that content and
\* that user as author
RoundTrip(trimmed) ==
    \A p \in Procs :
        /\ (proc[p].pc = "idle" /\ proc'[p] # proc[p])
           => \A tok \in Tokens, body \in PostBodies :
                (NotesPOST_check(p, tok, body) /\ proc'[p].pc = "note.create")
                => /\ proc'[p].data = (IF trimmed THEN Trimmed(body) ELSE Submitted(body))
                   /\ proc'[p].ctx.userId = tok.userId
        /\ (proc[p].pc = "note.create" /\ NotesPOST_create(p))
           => \A tok \in Tokens, id \in {nextNoteId} :
                tok.tenantId = proc[p].ctx.tenantId
                => (NoteGET_response(tok, id))'
                     = Created(id, proc[p].data.title, proc[p].data.content,
                               proc[p].ctx.userId)

\* C17 as stated: an accepted POST /notes followed by GET /notes/{id} with
\* the returned id by a user of the same tenant returns the title and the
\* content exactly as they were submitted, and the creating user as author.
C17_RoundTrip == [][RoundTrip(FALSE)]_vars

\* C17 amended: an accepted POST /notes followed by GET /notes/{id} with the
\* returned id by a user of the same tenant returns the submitted title and
\* content with their leading and trailing whitespace removed, and the
\* creating user as author.
C17_RoundTripTrimmed == [][RoundTrip(TRUE)]_vars

\* C17 witness: a note created by a POST whose title was submitted with
\* surrounding whitespace is stored trimmed, and the last request, a read,
\* was answered 200.
C17_Witness ==
    \E n \in notes \ SeedNotes, body \in PostBodies :
        /\ body.title # Trim(body.title)
        /\ n.title = Trim(body.title) /\ n.content = Trim(body.content)
        /\ out = StatusLine(Created(n.id, n.title, n.content, n.authorId))
        /\ \A p \in Procs : proc[p].pc = "idle"

\* C28: the update step of a PUT /notes/{id} that is answered 200 replaces
\* the target note by a note with the same id, authorId and tenantId whose
\* title and content are the old ones or the validated ones of the request,
\* whoever the caller is, and leaves every other note and every user, plan
\* and invitation as they were.
C28_UpdateFrame ==
    [][\A p \in Procs :
          (proc[p].pc = "note.update" /\ NotePUT_update(p) /\ out'.status = 200)
          => /\ \E old \in notes, new \in notes' :
                  /\ old.id = proc[p].id
                  /\ new.id = old.id /\ new.authorId = old.authorId
                  /\ new.tenantId = old.tenantId
                  /\ new.title \in {old.title, proc[p].data.title}
                  /\ new.content \in {old.content, proc[p].data.content}
                  /\ notes' \ {new} = notes \ {old}
             /\ users' = users /\ tenantPlan' = tenantPlan /\ invitations' = invitations
             /\ nextNoteId' = nextNoteId]_vars

\* C28 witness: the note of the MEMBER u2 has a new title and still names u2
\* as author, the update was answered 200, and an update of the same note by
\* the ADMIN is on its way.
C28_Witness ==
    /\ out.status = 200
    /\ \E n \in notes : n.id = 1 /\ n.authorId = "u2" /\ n.title = <<"B">>
    /\ \E p \in Procs :
        /\ proc[p].pc = "note.update" /\ proc[p].id = 1
        /\ proc[p].ctx.role = "ADMIN"

\* note creation and deletion against the plan limits, with plan upgrades
NextPlan ==
    \E p \in Procs :
        \/ \E tok \in Tokens, body \in PostBodies : NotesPOST_check(p, tok, body)
        \/ NotesPOST_create(p)
        \/ \E tok \in Tokens, id \in NoteIdArgs : NoteDELETE_find(p, tok, id)
        \/ NoteDELETE_delete(p)
        \/ \E tok \in Tokens, slug \in Slugs : UpgradePOST_find(p, tok, slug)
        \/ UpgradePOST_read(p)
        \/ UpgradePOST_update(p)

SpecPlan == Init /\ [][NextPlan]_vars

\* --------------------------------------------- properties of SpecPlan
LimitReached == StatusLine(createApiError("Note limit reached", 403))

\* C3: a POST /notes with a valid body and a valid token, checked while the
\* caller's FREE tenant holds exactly 3 notes, is answered 403 with the limit
\* message and stores nothing.
C3_FreeLimit ==
    [][\A p \in Procs :
          (proc[p].pc = "idle" /\ (proc'[p] # proc[p] \/ out' # out))
          => \A tok \in Tokens, body \in PostBodies :
               (/\ validateCreateNote(body).isValid
                /\ tenantPlan[tok.tenantId] = "FREE"
                /\ Cardinality(NotesOfTenant(tok.tenantId)) = FREE_MAX_NOTES
                /\ NotesPOST_check(p, tok, body))
               => out' = LimitReached /\ notes' = notes /\ proc'[p].pc = "idle"]_vars

\* C3 witness: a FREE tenant holds exactly 3 notes and the last request was
\* refused with the limit message.
C3_Witness ==
    /\ out = LimitReached
    /\ \E t \in Tenants :
        tenantPlan[t] = "FREE" /\ Cardinality(NotesOfTenant(t)) = FREE_MAX_NOTES

\* C4: a POST /notes with a valid body and a valid token of a PRO tenant
\* passes the limit check and goes on to create the note, whatever the
\* number of notes the tenant holds.
C4_ProUnlimited ==
    [][\A p \in Procs :
          (proc[p].pc = "idle" /\ (proc'[p] # proc[p] \/ out' # out))
          => \A tok \in Tokens, body \in PostBodies :
               (/\ validateCreateNote(body).isValid
                /\ tenantPlan[tok.tenantId] = "PRO"
                /\ NotesPOST_check(p, tok, body))
               => proc'[p].pc = "note.create" /\ out' = out]_vars

\* C4 witness: a POST of a PRO tenant that holds 3 notes or more has passed
\* the limit check.
C4_Witness ==
    \E p \in Procs :
        /\ proc[p].pc = "note.create"
        /\ tenantPlan[proc[p].ctx.tenantId] = "PRO"
        /\ Cardinality(NotesOfTenant(proc[p].ctx.tenantId)) >= FREE_MAX_NOTES

\* C11: a step changes a tenant's plan only to PRO and only as the update of
\* an upgrade request whose token has role ADMIN and the tenantId of that
\* tenant; an upgrade request of a MEMBER, or of an ADMIN for the slug of
\* another tenant, is answered 403 and changes no plan.
C11_UpgradeAdminOfTenant ==
    [][/\ \A t \in Tenants :
            tenantPlan'[t] # tenantPlan[t]
            => /\ tenantPlan'[t] = "PRO"
               /\ \E p \in Procs :
                    /\ proc[p].pc = "tenant.update" /\ proc'[p].pc = "idle"
                    /\ proc[p].ctx.role = "ADMIN"
                    /\ proc[p].ctx.tenantId = t
       /\ \A p \in Procs :
            (proc[p].pc = "idle" /\ (proc'[p] # proc[p] \/ out' # out))
            => \A tok \in Tokens, slug \in Slugs :
                 (/\ \/ tok.role = "MEMBER"
                     \/ \E t \in Tenants : SlugOf(t) = slug /\ t # tok.tenantId
                  /\ UpgradePOST_find(p, tok, slug))
                 => /\ out' = StatusLine(createForbiddenError)
                    /\ tenantPlan' = tenantPlan
                    /\ proc' = proc
      ]_vars

\* C11 witness: acme's admin has upgraded acme, globex is still FREE, and the
\* last upgrade request (of a member, or for the other tenant) was refused.
C11_Witness ==
    /\ tenantPlan["t1"] = "PRO"
    /\ tenantPlan["t2"] = "FREE"
    /\ out = StatusLine(createForbiddenError)
    /\ \A p \in Procs : proc[p].pc = "idle"

\* C19: no step takes a tenant's plan from PRO to FREE; a step that changes
\* a plan changes it from FREE to PRO.
C19_NoDowngrade ==
    [][\A t \in Tenants :
          /\ tenantPlan[t] = "PRO" => tenantPlan'[t] = "PRO"
          /\ tenantPlan'[t] # tenantPlan[t]
             => tenantPlan[t] = "FREE" /\ tenantPlan'[t] = "PRO"]_vars

AlreadyPro == StatusLine(createApiError("Tenant is already on PRO plan", 400))

\* C19 witness: a tenant is on PRO after a further upgrade request for it was
\* answered, and another request holds a plan update it decided on while the
\* tenant was FREE.
C19_Witness ==
    /\ out = AlreadyPro
    /\ \E p \in Procs :
        /\ proc[p].pc = "tenant.update"
        /\ tenantPlan[proc[p].ctx.tenantId] = "PRO"

\* C24: the step that upgrades a FREE tenant holding 3 notes or more leads
\* to a state in which the limit check of a POST /notes lets every user of
\* that tenant create a note, with the token the user already holds.
C24_UpgradeImmediate ==
    [][\A p \in Procs :
          (proc[p].pc = "tenant.update" /\ UpgradePOST_update(p))
          => \A t \in {proc[p].ctx.tenantId} :
               (tenantPlan[t] = "FREE" /\ Cardinality(NotesOfTenant(t)) >= FREE_MAX_NOTES)
               => \A tok \in Tokens :
                    tok.tenantId = t
                    => (checkNoteLimit(getUserContextFromToken(tok).tenantId).canCreate)']_vars

\* C24 witness: after an upgrade was answered 200, a POST /notes of the
\* upgraded tenant, which holds 3 notes or more, has passed the limit check.
C24_Witness ==
    /\ out = StatusLine(createApiResponse(<<>>, 200))
    /\ \E p \in Procs :
        /\ proc[p].pc = "note.create"
        /\ tenantPlan[proc[p].ctx.tenantId] = "PRO"
        /\ Cardinality(NotesOfTenant(proc[p].ctx.tenantId)) >= FREE_MAX_NOTES
        /\ \A q \in Procs \ {p} : proc[q].pc = "idle"

\* ------------------------------------------------------ concurrent creation
\* two POST /notes in flight at once, with room for both inserts
MaxRaceNoteId == 4

NextRace ==
    \E p \in Procs :
        \/ \E tok \in Tokens, body \in PostBodies : NotesPOST_check(p, tok, body)
        \/ NotesPOST_insert(p, MaxRaceNoteId)
        \/ \E tok \in Tokens, id \in 0..MaxRaceNoteId : NoteDELETE_find(p, tok, id)
        \/ NoteDELETE_delete(p)

SpecRace == Init /\ [][NextRace]_vars

\* --------------------------------------------- properties of SpecRace
\* C18: the limit is read only by the check of a POST /notes: the check
\* step stores nothing, and the insert step of a request that has passed the
\* check adds its note to the tenant whatever the tenant holds by then and
\* removes none, so two requests that both passed the check while their FREE
\* tenant held 2 notes leave it with 4.
C18_InsertAfterCheck ==
    [][\A p \in Procs :
          /\ (proc[p].pc = "idle" /\ proc'[p].pc = "note.create") => notes' = notes
          /\ (proc[p].pc = "note.create" /\ proc'[p] # proc[p])
             => \A t \in {proc[p].ctx.tenantId} :
                  /\ notes \subseteq notes'
                  /\ Cardinality(NotesOfTenant(t)') = Cardinality(NotesOfTenant(t)) + 1
                  /\ proc'[p].pc = "idle"]_vars

\* C18 witness: both requests have finished and their FREE tenant holds one
\* note more than its limit.
C18_Witness ==
    /\ \A p \in Procs : proc[p].pc = "idle"
    /\ out.status = 201
    /\ \E t \in Tenants :
        /\ tenantPlan[t] = "FREE"
        /\ Cardinality(NotesOfTenant(t)) = FREE_MAX_NOTES + 1

\* ---------------------------------------------------- invitation workflow
\* The store after acme has taken two more members in by invitation; acme is
\* on either plan.
InviteUsers ==
    SeedUsers \cup
    { [id |-> "u4", email |-> "m4@acme", role |-> "MEMBER", tenantId |-> "t1"],
      [id |-> "u5", email |-> "m5@acme", role |-> "MEMBER", tenantId |-> "t1"] }

InviteInvitations ==
    { [id |-> 1, email |-> "m4@acme", role |-> "MEMBER", status |-> "ACCEPTED",
       tenantId |-> "t1", invitedBy |-> "u1", expiresAt |-> INVITE_TTL],
      [id |-> 2, email |-> "m5@acme", role |-> "MEMBER", status |-> "ACCEPTED",
       tenantId |-> "t1", invitedBy |-> "u1", expiresAt |-> INVITE_TTL] }

InitInvite ==
    /\ tenantPlan \in {[t \in Tenants |-> "FREE"], [t \in Tenants |-> IF t = "t1" THEN "PRO" ELSE "FREE"]}
    /\ users = InviteUsers
    /\ notes = SeedNotes
    /\ nextNoteId = Cardinality(SeedNotes) + 1
    /\ invitations = InviteInvitations
    /\ nextInvId = Cardinality(InviteInvitations) + 1
    /\ now = 0
    /\ proc = [p \in Procs |-> Idle]
    /\ out = [status |-> 0, msg |-> None]

InviteEmails == {"x@new", "y@new", "user@acme", "bad"}
InviteRoleArgs == {"MEMBER", "OWNER"}
AcceptTokens == 0..MaxInvId
Passwords == {"longpass1", "short"}

\* acme's users invite and the invited accept, all within the lifetime of
\* the invitations
NextInvite ==
    \E p \in Procs :
        \/ \E tok \in {TokenOf(u) : u \in UsersOfTenant("t1")},
              email \in InviteEmails, role \in InviteRoleArgs :
                  InvitePOST_user(p, tok, email, role)
        \/ InvitePOST_pending(p)
        \/ InvitePOST_tenant(p)
        \/ InvitePOST_userCount(p)
        \/ InvitePOST_pendingCount(p)
        \/ InvitePOST_create(p)
        \/ \E token \in AcceptTokens, password \in Passwords :
              AcceptPOST_find(p, token, password, "longpass1")
        \/ AcceptPOST_user(p)
        \/ AcceptPOST_exists(p)
        \/ AcceptPOST_count(p)
        \/ AcceptPOST_transaction(p)

SpecInvite == InitInvite /\ [][NextInvite]_vars

\* ------------------------------------------- properties of SpecInvite
UserLimitExceeded == StatusLine(createApiError("User limit exceeded", 403))

\* the request of p has read the user count the tenant has now, and its email
\* still has neither a user nor a pending invitation in the tenant
InviteReadsCurrent(p) ==
    LET t == proc[p].ctx.tenantId
    IN  /\ proc[p].count = Cardinality(UsersOfTenant(t))
        /\ proc[p].plan = tenantPlan[t]
        /\ FindUser(proc[p].email, t) = {}
        /\ \A i \in PendingOfTenant(t) : i.email # proc[p].email

C21_OnePendingPerAddress ==
    \A i, j \in invitations :
        (/\ i.status = "PENDING" /\ j.status = "PENDING"
         /\ i.tenantId = j.tenantId /\ i.email = j.email)
        => i = j

\* ------------------------------------------------- requests one at a time
\* acme is FREE with 4 users and either no PENDING invitation or one
SeqInvitations ==
    { InviteInvitations,
      InviteInvitations \cup
        {[id |-> 3, email |-> "y@new", role |-> "MEMBER", status |-> "PENDING",
          tenantId |-> "t1", invitedBy |-> "u1", expiresAt |-> INVITE_TTL]} }

InitSeq ==
    /\ tenantPlan = [t \in Tenants |-> "FREE"]
    /\ users = InviteUsers
    /\ notes = SeedNotes
    /\ nextNoteId = Cardinality(SeedNotes) + 1
    /\ invitations \in SeqInvitations
    /\ nextInvId = Cardinality(invitations) + 1
    /\ now = 0
    /\ proc = [p \in Procs |-> Idle]
    /\ out = [status |-> 0, msg |-> None]

\* no request is being processed
AllIdle == \A p \in Procs : proc[p].pc = "idle"

\* invite, accept and validate calls, each started when the one before it
\* has been answered, while time passes (a PENDING invitation whose address
\* has a user in the tenant does not arise one call at a time, so the accept
\* handler's branch for it is not part of this specification)
NextSeq ==
    \/ \E p \in Procs :
        \/ /\ AllIdle
           /\ \E tok \in {TokenOf(u) : u \in UsersOfTenant("t1")},
                 email \in InviteEmails, role \in InviteRoleArgs :
                     InvitePOST_user(p, tok, email, role)
        \/ InvitePOST_pending(p)
        \/ InvitePOST_tenant(p)
        \/ InvitePOST_userCount(p)
        \/ InvitePOST_pendingCount(p)
        \/ InvitePOST_create(p)
        \/ /\ AllIdle
           /\ \E token \in AcceptTokens, password \in Passwords :
                 AcceptPOST_find(p, token, password, "longpass1")
        \/ AcceptPOST_expire(p)
        \/ AcceptPOST_user(p)
        \/ AcceptPOST_count(p)
        \/ AcceptPOST_transaction(p)
        \/ /\ AllIdle
           /\ \E token \in AcceptTokens : ValidateGET_find(p, token)
        \/ ValidateGET_user(p)
    \/ Tick

SpecSeq == InitSeq /\ [][NextSeq]_vars

\* --------------------------------------------- properties of SpecSeq
\* C25: with requests processed one at a time, a FREE tenant that starts
\* with users + PENDING invitations <= 5 never has users + PENDING
\* invitations above 5, and so never more than 5 users.
C25_SequentialCap ==
    \A t \in Tenants :
        tenantPlan[t] = "FREE"
        => /\ Cardinality(UsersOfTenant(t)) + Cardinality(PendingOfTenant(t)) <= FREE_MAX_USERS
           /\ Cardinality(UsersOfTenant(t)) <= FREE_MAX_USERS

\* C25 witness: acme, FREE, has reached 5 users by the acceptance of an
\* invitation and the invitation tried after that was refused for the cap.
C25_Witness ==
    /\ tenantPlan["t1"] = "FREE"
    /\ Cardinality(UsersOfTenant("t1")) = FREE_MAX_USERS
    /\ out = UserLimitExceeded
    /\ AllIdle

\* ------------------------------------------------------ pending invitations
\* The seeded store after acme's admin has invited x@new and y@new.
PendingInvitations ==
    { [id |-> 1, email |-> "x@new", role |-> "MEMBER", status |-> "PENDING",
       tenantId |-> "t1", invitedBy |-> "u1", expiresAt |-> INVITE_TTL],
      [id |-> 2, email |-> "y@new", role |-> "MEMBER", status |-> "PENDING",
       tenantId |-> "t1", invitedBy |-> "u1", expiresAt |-> INVITE_TTL] }

InitAccept ==
    /\ tenantPlan = [t \in Tenants |-> "FREE"]
    /\ users = SeedUsers
    /\ notes = SeedNotes
    /\ nextNoteId = Cardinality(SeedNotes) + 1
    /\ invitations = PendingInvitations
    /\ nextInvId = Cardinality(PendingInvitations) + 1
    /\ now = 0
    /\ proc = [p \in Procs |-> Idle]
    /\ out = [status |-> 0, msg |-> None]

AcceptTokenArgs == 0..(Cardinality(PendingInvitations) + 1)

\* the invited accept and validate while time passes and handlers crash
NextAccept ==
    \/ \E p \in Procs :
        \/ \E token \in AcceptTokenArgs, password \in Passwords :
              AcceptPOST_find(p, token, password, "longpass1")
        \/ AcceptPOST_expire(p)
        \/ AcceptPOST_user(p)
        \/ AcceptPOST_exists(p)
        \/ AcceptPOST_count(p)
        \/ AcceptPOST_transaction(p)
        \/ \E token \in AcceptTokenArgs : ValidateGET_find(p, token)
        \/ ValidateGET_user(p)
        \/ Crash(p)
    \/ Tick

SpecAccept == InitAccept /\ [][NextAccept]_vars

\* ------------------------------------------- properties of SpecAccept
UsersOfInvitation(i) == FindUser(i.email, i.tenantId)

\* C6: an accept call processed while its invitation is not PENDING, or at an
\* instant now >= expiresAt, ends in an error and creates no user: it never
\* goes on towards the creation of the user.
C6_AcceptOnlyPendingUnexpired ==
    [][\A p \in Procs :
          (proc[p].pc = "idle" /\ (proc'[p] # proc[p] \/ out' # out))
          => \A token \in AcceptTokenArgs :
               (/\ ~ \E i \in invitations :
                        i.id = token /\ i.status = "PENDING" /\ now < i.expiresAt
                /\ AcceptPOST_find(p, token, "longpass1", "longpass1"))
               => /\ proc'[p].pc \in {"idle", "accept.invitation.expire"}
                  /\ proc'[p].pc = "idle" => out'.status >= 400
                  /\ users' = users]_vars

\* C7: of the accept calls on one invitation, however they interleave, at
\* most one is answered 201, and the invitation has at most one user row: a
\* 201 is answered only by the call that creates the first user of the
\* invitation's email in its tenant.
C7_SingleUse ==
    /\ [](\A i \in invitations : Cardinality(UsersOfInvitation(i)) <= 1)
    /\ [][\A p \in Procs :
            (/\ proc[p].pc = "accept.transaction"
             /\ out'.status = 201
             /\ AcceptPOST_transaction(p))
            => /\ UsersOfInvitation(InvitationById(proc[p].id)) = {}
               /\ InvitationById(proc[p].id).status # "ACCEPTED"
               /\ Cardinality(users') = Cardinality(users) + 1]_vars

\* C7 witness: an invitation has been accepted by one call while a second call
\* on the same invitation, begun before, stands at its transaction.
C7_Witness ==
    \E i \in invitations, p \in Procs :
        /\ i.status = "ACCEPTED"
        /\ Cardinality(UsersOfInvitation(i)) = 1
        /\ proc[p].pc = "accept.transaction"
        /\ proc[p].id = i.id

\* C8: at every instant, whatever the interleaving of accept and validate
\* calls and wherever a handler has died, every invitation whose status is
\* ACCEPTED has a user with its email in its tenant.
C8_AcceptedHasUser ==
    \A i \in invitations : i.status = "ACCEPTED" => UsersOfInvitation(i) # {}

\* C8 witness: one invitation is ACCEPTED with its user while the accept of
\* the other, still PENDING and without a user, stands at its transaction,
\* where it commits both writes or dies with neither.
C8_Witness ==
    /\ \E i \in invitations : i.status = "ACCEPTED" /\ UsersOfInvitation(i) # {}
    /\ \E j \in invitations, p \in Procs :
        /\ j.status = "PENDING"
        /\ UsersOfInvitation(j) = {}
        /\ proc[p].pc = "accept.transaction"
        /\ proc[p].id = j.id

\* C9: the status of an invitation changes only out of PENDING: once it is
\* ACCEPTED, EXPIRED or CANCELLED no step changes it again.
C9_StatusOnlyLeavesPending ==
    [][\A i \in invitations :
          i.status # "PENDING"
          => \A j \in invitations' : j.id = i.id => j.status = i.status]_vars

\* ------------------------------------------------------- request boundary
ISSUER == "notesrole-app"
AUDIENCE == "notesrole-users"
JWT_SECRET == "secret"

\* The Authorization header of a request: absent, not a JWT at all, or a JWT
\* with its claims, expiry, issuer, audience and the key that signed it.
NoToken ==
    [kind |-> "none", claims |-> NoCtx, exp |-> 0, iss |-> None, aud |-> None,
     sig |-> None]
Malformed == [NoToken EXCEPT !.kind = "malformed"]
SignedToken(u, exp, iss, aud, key) ==
    [kind |-> "jwt", claims |-> TokenOf(u), exp |-> exp, iss |-> iss, aud |-> aud,
     sig |-> key]

\* sign(payload, secret, {expiresIn: '24h', issuer, audience}); 24 hours are
\* less than one unit of the clock: a token is expired at the instant after
\* the one it was issued at
TOKEN_TTL == 1
generateJWT(u) == SignedToken(u, now + TOKEN_TTL, ISSUER, AUDIENCE, JWT_SECRET)

\* jwt.verify(token, secret) of the middleware and of extractUserFromToken:
\* the signature and the expiry, no option for issuer or audience
jwtVerify(token) ==
    token.kind = "jwt" /\ token.sig = JWT_SECRET /\ now < token.exp

\* verifyJWT of lib/auth: verify(token, secret, {issuer, audience})
verifyJWT(token) ==
    jwtVerify(token) /\ token.iss = ISSUER /\ token.aud = AUDIENCE

\* the x-tenant-id, x-tenant-slug, x-user-id and x-user-role headers of a
\* request as the client sent it
NoHeaders == [tenantId |-> None, tenantSlug |-> None, userId |-> None, userRole |-> None]
HeadersOf(u) ==
    [tenantId |-> u.tenantId, tenantSlug |-> SlugOf(u.tenantId), userId |-> u.id,
     userRole |-> u.role]

\* a request: ext is the file extension its path ends with, id the note id of
\* the path or the invitation token of the query or body
Request(method, path, ext, id, auth, cookie, headers) ==
    [method |-> method, path |-> path, ext |-> ext, id |-> id, auth |-> auth,
     cookie |-> cookie, headers |-> headers]

PublicPaths == {"/login", "/api/auth/login", "/api/auth/verify", "/api/health"}
ApiPaths ==
    {"/api/notes", "/api/notes/[id]", "/api/tenant", "/api/users/invite/accept",
     "/api/auth/login", "/api/auth/verify", "/api/health"}
StaticExts == {".png", ".js"}

\* what the middleware does with a request: status 0 hands it on to the route
Forward == [status |-> 0, msg |-> "next", data |-> <<>>]
middleware(req) ==
    IF req.method = "OPTIONS"
    THEN [status |-> 200, msg |-> "preflight", data |-> <<>>]
    ELSE IF req.ext \in StaticExts
    THEN Forward
    ELSE IF req.path \in PublicPaths
    THEN Forward
    ELSE IF req.path \in ApiPaths
    THEN IF req.auth.kind = "none"
         THEN jsonError("Authentication required", 401)
         ELSE IF jwtVerify(req.auth)
         THEN Forward
         ELSE jsonError("Invalid token", 401)
    ELSE IF req.cookie.kind = "none"
    THEN [status |-> 307, msg |-> "/login", data |-> <<>>]
    ELSE IF jwtVerify(req.cookie)
    THEN Forward
    ELSE [status |-> 307, msg |-> "/login", data |-> <<>>]

\* a response that ends the request at once
Respond(p, resp) ==
    /\ proc[p].pc = "idle"
    /\ out' = StatusLine(resp)
    /\ UNCHANGED <<tenantPlan, users, notes, nextNoteId, invitations, nextInvId, now, proc>>

\* the tenant information route: getTenantContext and getRepositoryFromHeaders
\* read the x- headers of the request; the answer names the tenant whose
\* data it shows
TenantInfoGET(p, req) ==
    LET context == req.headers
    IN  IF \/ context.tenantId = None \/ context.tenantSlug = None
           \/ context.userId = None \/ context.userRole = None
        THEN Respond(p, createApiError("Missing tenant context in request headers", 500))
        ELSE IF context.tenantId \notin Tenants
        THEN Respond(p, createApiError("Tenant not found", 404))
        ELSE Respond(p, [status |-> 200, msg |-> context.tenantId, data |-> <<>>])

\* the route handler a forwarded request reaches; the note handlers verify
\* the token again (extractUserFromToken) and answer 500 when that throws
Route(p, req) ==
    CASE req.path = "/api/notes" /\ req.method = "GET" ->
            IF jwtVerify(req.auth)
            THEN NotesGET(p, req.auth.claims, Query(NoNumber, NoNumber, Undef, None, None))
            ELSE Respond(p, createApiError("Failed to retrieve notes", 500))
      [] req.path = "/api/notes/[id]" /\ req.method = "GET" ->
            IF jwtVerify(req.auth)
            THEN NoteGET(p, req.auth.claims, IF req.ext = "" THEN req.id ELSE 0)
            ELSE Respond(p, createApiError("Failed to retrieve note", 500))
      [] req.path = "/api/tenant" /\ req.method = "GET" ->
            TenantInfoGET(p, req)
      [] req.path = "/api/users/invite/accept" /\ req.method = "POST" ->
            AcceptPOST_find(p, req.id, "longpass1", "longpass1")
      [] req.path = "/api/users/invite/accept" /\ req.method = "GET" ->
            ValidateGET_find(p, req.id)
      [] req.path = "/invite/accept" /\ req.method = "GET" ->
            Respond(p, [status |-> 200, msg |-> "AcceptInvitationPage", data |-> <<>>])
      [] OTHER -> FALSE

\* a request arrives: the middleware, then the route
Serve(p, req) ==
    /\ proc[p].pc = "idle"
    /\ IF middleware(req).status # 0
       THEN Respond(p, middleware(req))
       ELSE Route(p, req)

\* ------------------------------------------------- the requests of the gate
\* the users whose tokens the clients hold: a member of acme, the admin of globex
GateUsers == {u \in SeedUsers : u.id \in {"u2", "u3"}}

\* what a client can put into the Authorization header: nothing, garbage, a
\* token of the login, an expired one, one signed with another key, and
\* tokens signed with the server's key for another issuer or audience
GateAuths ==
    {NoToken, Malformed} \cup
    UNION {{ generateJWT(u),
             SignedToken(u, now, ISSUER, AUDIENCE, JWT_SECRET),
             SignedToken(u, now + TOKEN_TTL, ISSUER, AUDIENCE, "other-key"),
             SignedToken(u, now + TOKEN_TTL, "other-app", AUDIENCE, JWT_SECRET),
             SignedToken(u, now + TOKEN_TTL, ISSUER, "other-users", JWT_SECRET) } : u \in GateUsers}

GateCalls ==
    { <<"GET", "/api/notes", "", 0>>,
      <<"OPTIONS", "/api/notes", "", 0>>,
      <<"GET", "/api/notes/[id]", "", 1>>,
      <<"GET", "/api/notes/[id]", ".png", 1>>,
      <<"GET", "/api/users/invite/accept", "", 1>>,
      <<"POST", "/api/users/invite/accept", "", 1>>,
      <<"POST", "/api/users/invite/accept", "", 2>> }

GateRequests ==
    {Request(c[1], c[2], c[3], c[4], a, NoToken, NoHeaders) : c \in GateCalls, a \in GateAuths}
    \cup {Request("GET", "/api/tenant", "", 0, a, NoToken, h) :
            a \in GateAuths, h \in {NoHeaders} \cup {HeadersOf(u) : u \in GateUsers}}
    \cup {Request("GET", "/invite/accept", "", 1, NoToken, c, NoHeaders) :
            c \in {NoToken} \cup {generateJWT(u) : u \in GateUsers}}

\* requests pass the middleware and reach the note, tenant and invitation
\* routes; the store starts with two pending invitations
NextGate ==
    \E p \in Procs :
        \/ \E req \in GateRequests : Serve(p, req)
        \/ AcceptPOST_user(p)
        \/ AcceptPOST_exists(p)
        \/ AcceptPOST_count(p)
        \/ AcceptPOST_transaction(p)
        \/ ValidateGET_user(p)

SpecGate == InitAccept /\ [][NextGate]_vars

\* --------------------------------------------- properties of SpecGate
\* an /api route other than the three public ones
Protected(req) == req.path \in ApiPaths \ PublicPaths

StoreUnchanged ==
    UNCHANGED <<tenantPlan, users, notes, nextNoteId, invitations, nextInvId>>

\* C12: a request to a protected /api route with no token, or with a
\* malformed, expired or wrongly signed token, is answered 401, starts no
\* handler and leaves the datastore as it is.
C12_Unauthenticated401 ==
    [][\A p \in Procs :
          (proc[p].pc = "idle" /\ (proc'[p] # proc[p] \/ out' # out))
          => \A req \in GateRequests :
               (Protected(req) /\ ~jwtVerify(req.auth) /\ Serve(p, req))
               => out'.status = 401 /\ proc' = proc /\ StoreUnchanged]_vars

\* C13: a request to a protected /api route (not a preflight, not a path
\* with a file extension) whose token is correctly signed and unexpired but
\* names another issuer or another audience is rejected with 401 and served
\* by no handler.
C13_IssuerAudienceChecked ==
    [][\A p \in Procs :
          (proc[p].pc = "idle" /\ (proc'[p] # proc[p] \/ out' # out))
          => \A req \in GateRequests :
               (/\ Protected(req) /\ req.method # "OPTIONS" /\ req.ext = ""
                /\ jwtVerify(req.auth)
                /\ req.auth.iss # ISSUER \/ req.auth.aud # AUDIENCE
                /\ Serve(p, req))
               => out'.status = 401 /\ proc' = proc /\ StoreUnchanged]_vars

\* C14: whatever x-tenant-id, x-tenant-slug, x-user-id and x-user-role
\* headers the client sent, a handler that works from those headers shows
\* the data of the tenant of the token the middleware verified: two
\* requests with one token get the same tenant's data.
C14_HeadersFromToken ==
    [][\A p \in Procs :
          (proc[p].pc = "idle" /\ (proc'[p] # proc[p] \/ out' # out))
          => \A req \in GateRequests :
               (req.path = "/api/tenant" /\ Serve(p, req) /\ out'.status = 200)
               => out'.msg = req.auth.claims.tenantId]_vars

\* C15: a POST or GET on /api/users/invite/accept with the token of a
\* PENDING, unexpired invitation and no Authorization header passes the
\* middleware and reaches its handler, which goes on to look for the user.
C15_AcceptWithoutAccount ==
    [][\A p \in Procs :
          (proc[p].pc = "idle" /\ (proc'[p] # proc[p] \/ out' # out))
          => \A req \in GateRequests :
               (/\ req.path = "/api/users/invite/accept"
                /\ req.auth = NoToken
                /\ \E i \in FindPendingByToken(req.id) : ~HasExpired(i)
                /\ Serve(p, req))
               => /\ out'.status # 401
                  /\ proc'[p].pc \in {"accept.user.findFirst", "validate.user.findFirst"}]_vars

\* the JSON envelope of an error: success false together with an error message
HasErrorEnvelope(body) ==
    /\ "success" \in DOMAIN body /\ body.success = FALSE
    /\ "error" \in DOMAIN body

\* C23: every response with status 4xx or 5xx that the middleware gives to
\* a request has a JSON body with success false and an error message.
C23_ErrorEnvelope ==
    [][\A p \in Procs :
          (proc[p].pc = "idle" /\ out' # out)
          => \A req \in GateRequests :
               (Serve(p, req) /\ middleware(req).status >= 400)
               => HasErrorEnvelope(middleware(req).body)]_vars

\* ------------------------------------------------------- POST /auth/login
\* mutant: the token's tenant is that of any user with the address
authenticateUser_tenantOfAddress(email, passwordValid) ==
    IF passwordValid
    THEN {[TokenOf(u) EXCEPT !.tenantId = v.tenantId, !.tenantSlug = SlugOf(v.tenantId)] :
             u \in {u \in users : u.email = email}, v \in {v \in users : v.email = email}}
    ELSE {}

\* The tokens a login with this address can return: user.findFirst({email})
\* finds a user with the address in whichever tenant, comparePassword accepts
\* or refuses the password, and the token carries that user's id and tenant.
authenticateUser(email, passwordValid) ==
    IF passwordValid
    THEN {TokenOf(u) : u \in {u \in users : u.email = email}}
    ELSE {}

LoginPOST(p, email, passwordValid) ==
    /\ proc[p].pc = "idle"
    /\ out' = IF ~ValidEmail(email)
              THEN StatusLine(createValidationError)
              ELSE IF authenticateUser(email, passwordValid) = {}
              THEN StatusLine(createApiError("Invalid email or password", 401))
              ELSE StatusLine(createApiResponse(<<>>, 200))
    /\ UNCHANGED <<tenantPlan, users, notes, nextNoteId, invitations, nextInvId, now, proc>>

\* The password a user was stored with: the seed gives every account the
\* password "password", an accepted invitation stores the password of the
\* accept request, which in the model is "longpass1".
PasswordOf(u) == IF u \in SeedUsers THEN "password" ELSE "longpass1"
comparePassword(password, u) == password = PasswordOf(u)

\* the rows user.findFirst({where: {email}}) can return: no tenant is named
\* and no order is asked for
FindByEmail(email) == {u \in users : u.email = email}

\* a login whose findFirst returned the row found
LoginPOST_found(p, email, password, found) ==
    /\ found \in FindByEmail(email)
    /\ LoginPOST(p, email, comparePassword(password, found))

\* a login with an address that no user has
LoginPOST_unknown(p, email) ==
    /\ FindByEmail(email) = {}
    /\ LoginPOST(p, email, FALSE)

LoginPasswords == {"password", "longpass1", "wrong"}

\* ------------------------------------------------------- invited authors
\* The seeded store after acme's admin has invited globex's admin.
AuthorInvitations ==
    { [id |-> 1, email |-> "admin@globex", role |-> "MEMBER", status |-> "PENDING",
       tenantId |-> "t1", invitedBy |-> "u1", expiresAt |-> INVITE_TTL] }

InitAuthor ==
    /\ tenantPlan = [t \in Tenants |-> "FREE"]
    /\ users = SeedUsers
    /\ notes = SeedNotes
    /\ nextNoteId = Cardinality(SeedNotes) + 1
    /\ invitations = AuthorInvitations
    /\ nextInvId = Cardinality(AuthorInvitations) + 1
    /\ now = 0
    /\ proc = [p \in Procs |-> Idle]
    /\ out = [status |-> 0, msg |-> None]

LoginEmails == {"user@acme", "admin@globex", "x@new", "bad"}

\* the tokens held by clients that have logged in
LoginTokens == UNION {authenticateUser(email, TRUE) : email \in LoginEmails}

\* logins, acceptances of invitations and the note handlers that write
NextAuthor ==
    \E p \in Procs :
        \/ \E email \in LoginEmails, password \in LoginPasswords, found \in users :
              LoginPOST_found(p, email, password, found)
        \/ \E email \in LoginEmails : LoginPOST_unknown(p, email)
        \/ \E token \in AcceptTokenArgs :
              AcceptPOST_find(p, token, "longpass1", "longpass1")
        \/ AcceptPOST_user(p)
        \/ AcceptPOST_exists(p)
        \/ AcceptPOST_count(p)
        \/ AcceptPOST_transaction(p)
        \/ \E tok \in LoginTokens, body \in PostBodies : NotesPOST_check(p, tok, body)
        \/ NotesPOST_create(p)
        \/ \E tok \in LoginTokens, id \in NoteIdArgs, body \in PutBodies :
              NotePUT_find(p, tok, id, body)
        \/ NotePUT_update(p)
        \/ \E tok \in LoginTokens, id \in NoteIdArgs : NoteDELETE_find(p, tok, id)
        \/ NoteDELETE_delete(p)

SpecAuthor == InitAuthor /\ [][NextAuthor]_vars

\* --------------------------------------------- properties of SpecAuthor
\* C20: in every state reached through logins, acceptances of invitations
\* and the note handlers, the authorId of each note is the id of a user whose
\* tenantId is the note's tenantId.
C20_AuthorInTenant ==
    \A n \in notes : \E u \in users : u.id = n.authorId /\ u.tenantId = n.tenantId

\* C20 witness: a user created by the acceptance of an invitation, whose
\* address also belongs to a user of another tenant, has logged in and
\* created a note.
C20_Witness ==
    \E n \in notes \ SeedNotes, u \in users \ SeedUsers :
        /\ n.authorId = u.id
        /\ \E v \in users : v.email = u.email /\ v.tenantId # u.tenantId

\* C27: a login with the address and the password of a stored user is
\* answered 200 with the token of that user, also when another tenant has a
\* user with the same address.
C27_LoginOwnUser ==
    [][\A p \in Procs :
          (proc[p].pc = "idle" /\ out' # out)
          => \A u \in users, found \in users :
               LoginPOST_found(p, u.email, PasswordOf(u), found)
               => /\ out' = StatusLine(createApiResponse(<<>>, 200))
                  /\ TokenOf(found) = TokenOf(u)]_vars

\* ------------------------------------------------------------ permissions
\* an optional string argument that the caller left out
Absent == "undefined"
\* !x of a string argument: left out or empty
FalsyId(x) == x = Absent \/ x = ""

\* the permissions matrix: the roles that hold each permission
PERMISSIONS ==
    [CREATE_NOTE |-> {"ADMIN", "MEMBER"},
     READ_OWN_NOTES |-> {"ADMIN", "MEMBER"},
     READ_ALL_NOTES |-> {"ADMIN"},
     UPDATE_OWN_NOTES |-> {"ADMIN", "MEMBER"},
     UPDATE_ALL_NOTES |-> {"ADMIN"},
     DELETE_OWN_NOTES |-> {"ADMIN", "MEMBER"},
     DELETE_ALL_NOTES |-> {"ADMIN"},
     INVITE_USERS |-> {"ADMIN"},
     LIST_USERS |-> {"ADMIN"},
     UPDATE_USER_ROLES |-> {"ADMIN"},
     DELETE_USERS |-> {"ADMIN"},
     UPGRADE_SUBSCRIPTION |-> {"ADMIN"},
     VIEW_TENANT_STATS |-> {"ADMIN"},
     MANAGE_TENANT_SETTINGS |-> {"ADMIN"}]

Permissions == DOMAIN PERMISSIONS

\* mutant: a member with the permission acts on any resource
canPerformAction_anyOwner(context, permission, resourceOwnerId) ==
    hasPermission(context.role, PERMISSIONS[permission])

canPerformAction(context, permission, resourceOwnerId) ==
    IF ~hasPermission(context.role, PERMISSIONS[permission])
    THEN FALSE
    ELSE IF FalsyId(resourceOwnerId)
    THEN TRUE
    ELSE IF context.role = "ADMIN"
    THEN TRUE
    ELSE context.userId = resourceOwnerId

\* admins reach every resource of their tenant, members their own
canAccessResource(context, resourceUserId) ==
    IF context.role = "ADMIN" THEN TRUE ELSE context.userId = resourceUserId

\* the context read from the x- headers names the role userRole
TenantContextOf(context) == [userId |-> context.userId, userRole |-> context.role]

\* validateUserAccess returns (TRUE) or throws 'Insufficient permissions' (FALSE)
validateUserAccess(context, resourceUserId) ==
    ~(context.userRole # "ADMIN" /\ context.userId # resourceUserId)

\* ---------------------------------------------------------- library calls
\* The helpers are called directly, one call at a time; out holds the last
\* call: the function, its arguments and what it returned.
NoCall == [call |-> None, args |-> <<>>, result |-> None]
Returned(call, args, result) == [call |-> call, args |-> args, result |-> result]

InitLib ==
    /\ tenantPlan = [t \in Tenants |-> "FREE"]
    /\ users = SeedUsers
    /\ notes = SeedNotes
    /\ nextNoteId = Cardinality(SeedNotes) + 1
    /\ invitations = {}
    /\ nextInvId = 1
    /\ now = 0
    /\ proc = [p \in Procs |-> Idle]
    /\ out = NoCall

\* the contexts of callers and the owners of resources
LibContexts ==
    {[userId |-> userId, role |-> role] : userId \in {"u1", "u2"}, role \in {"ADMIN", "MEMBER"}}
LibOwners == {Absent, "", "u1", "u2"}

CanPerformActionCall(context, permission, resourceOwnerId) ==
    /\ out' = Returned("canPerformAction", <<context, permission, resourceOwnerId>>,
                       canPerformAction(context, permission, resourceOwnerId))
    /\ UNCHANGED <<tenantPlan, users, notes, nextNoteId, invitations, nextInvId, now, proc>>

\* the owners that can be passed where the argument is not optional
LibResourceOwners == LibOwners \ {Absent}

CanAccessResourceCall(context, resourceUserId) ==
    /\ out' = Returned("canAccessResource", <<context, resourceUserId>>,
                       canAccessResource(context, resourceUserId))
    /\ UNCHANGED <<tenantPlan, users, notes, nextNoteId, invitations, nextInvId, now, proc>>

ValidateUserAccessCall(context, resourceUserId) ==
    /\ out' = Returned("validateUserAccess", <<context, resourceUserId>>,
                       validateUserAccess(TenantContextOf(context), resourceUserId))
    /\ UNCHANGED <<tenantPlan, users, notes, nextNoteId, invitations, nextInvId, now, proc>>

\* the ownership check of PUT and DELETE on a note with this author
OwnershipCheckCall(context, authorId) ==
    /\ out' = Returned("ownership", <<context, authorId>>,
                       ~OwnershipDenied([authorId |-> authorId], context))
    /\ UNCHANGED <<tenantPlan, users, notes, nextNoteId, invitations, nextInvId, now, proc>>

\* ---------------------------------------------------------- SessionManager
\* in the library calls the clock and the expiry of a token count seconds,
\* and Date.now() milliseconds
TOKEN_REFRESH_THRESHOLD == 2 * 60 * 60
MillisPerSecond == 1000

\* verifyJWT is an async function: the caller that does not await it holds a
\* promise, whatever the promise resolves to
Promise(value) == [kind |-> "promise", value |-> value]
IsFalsy(v) == v.kind = "null"
verifyJWT_async(token) ==
    Promise(IF verifyJWT(token) THEN token.claims.userId ELSE None)

\* SessionManager.shouldRefreshToken; firstNow and secondNow are the two
\* readings of Date.now() it takes
shouldRefreshToken(token, firstNow, secondNow) ==
    LET decoded == verifyJWT_async(token)
    IN  IF IsFalsy(decoded)
        THEN FALSE
        ELSE LET expirationTime == firstNow + TOKEN_REFRESH_THRESHOLD * MillisPerSecond
                 currentTime == secondNow
             IN  expirationTime - currentTime < TOKEN_REFRESH_THRESHOLD * MillisPerSecond

\* the tokens a caller can pass: none, garbage, tokens of the server that
\* expire now, in one hour, in two hours, just after, and in 24 hours, and
\* a token signed with another key
LibExpiries == {0, 3600, TOKEN_REFRESH_THRESHOLD, TOKEN_REFRESH_THRESHOLD + 1, 86400}
LibTokens ==
    {NoToken, Malformed}
    \cup {SignedToken(u, now + e, ISSUER, AUDIENCE, JWT_SECRET) :
            u \in GateUsers, e \in LibExpiries}
    \cup {SignedToken(u, now + 3600, ISSUER, AUDIENCE, "other-key") : u \in GateUsers}

\* the clock may or may not advance by a millisecond between the two readings
ShouldRefreshTokenCall(token, elapsed) ==
    /\ out' = Returned("shouldRefreshToken", <<token, elapsed>>,
                       shouldRefreshToken(token, now * MillisPerSecond,
                                          now * MillisPerSecond + elapsed))
    /\ UNCHANGED <<tenantPlan, users, notes, nextNoteId, invitations, nextInvId, now, proc>>

NextLib ==
    \/ \E context \in LibContexts, permission \in Permissions, resourceOwnerId \in LibOwners :
          CanPerformActionCall(context, permission, resourceOwnerId)
    \/ \E context \in LibContexts, resourceUserId \in LibResourceOwners :
          CanAccessResourceCall(context, resourceUserId)
    \/ \E context \in LibContexts, resourceUserId \in LibResourceOwners :
          ValidateUserAccessCall(context, resourceUserId)
    \/ \E context \in LibContexts, authorId \in LibResourceOwners :
          OwnershipCheckCall(context, authorId)
    \/ \E token \in LibTokens, elapsed \in 0..1 : ShouldRefreshTokenCall(token, elapsed)

SpecLib == InitLib /\ [][NextLib]_vars

\* ------------------------------------------------ properties of SpecLib
IsPassed(resourceOwnerId) == resourceOwnerId # Absent
IsNonEmpty(resourceOwnerId) == resourceOwnerId # Absent /\ resourceOwnerId # ""

\* what C22 says of a call of canPerformAction that has returned, where a
\* resourceOwnerId counts as given when it is passed, or only when it is
\* passed and not empty
CanPerformActionAsSpecified(nonEmpty) ==
    out.call = "canPerformAction"
    => LET context == out.args[1]
           permission == out.args[2]
           resourceOwnerId == out.args[3]
       IN  /\ context.role = "ADMIN" => out.result = TRUE
           /\ (/\ context.role = "MEMBER"
               /\ IF nonEmpty THEN IsNonEmpty(resourceOwnerId) ELSE IsPassed(resourceOwnerId))
              => (out.result <=> /\ "MEMBER" \in PERMISSIONS[permission]
                                 /\ resourceOwnerId = context.userId)

\* C22 as stated: canPerformAction returns true for an ADMIN, whatever the
\* permission and the resourceOwnerId; for a MEMBER and a resourceOwnerId
\* that is passed, it returns true if and only if MEMBER holds the permission
\* and the resourceOwnerId is the caller's userId.
C22_CanPerformAction == CanPerformActionAsSpecified(FALSE)

\* C22 amended: the same, for a MEMBER and a resourceOwnerId that is passed
\* and is not the empty string.
C22_CanPerformActionNonEmpty == CanPerformActionAsSpecified(TRUE)

\* C22 witness: a MEMBER was allowed an own-resource action on a resource of
\* their own.
C22_Witness ==
    /\ out.call = "canPerformAction"
    /\ out.args[1].role = "MEMBER"
    /\ out.args[3] = out.args[1].userId
    /\ out.result = TRUE

\* C26: for every role, userId and non-empty authorId, canAccessResource,
\* validateUserAccess, and canPerformAction with UPDATE_OWN_NOTES or
\* DELETE_OWN_NOTES and the authorId, allow exactly when the ownership check
\* of PUT and DELETE allows: the author is the caller or the caller is ADMIN.
C26_OwnershipEquivalent ==
    LET context == out.args[1]
        authorId == out.args[Len(out.args)]
        inline == ~OwnershipDenied([authorId |-> authorId], context)
    IN  (/\ \/ out.call \in {"canAccessResource", "validateUserAccess"}
            \/ /\ out.call = "canPerformAction"
               /\ out.args[2] \in {"UPDATE_OWN_NOTES", "DELETE_OWN_NOTES"}
         /\ IsNonEmpty(authorId))
        => /\ out.result = inline
           /\ inline = (authorId = context.userId \/ context.role = "ADMIN")

\* C26 witness: canPerformAction has refused a MEMBER the deletion of a note
\* written by someone else.
C26_Witness ==
    /\ out.call = "canPerformAction"
    /\ out.args[2] = "DELETE_OWN_NOTES"
    /\ out.args[1].role = "MEMBER"
    /\ IsNonEmpty(out.args[3])
    /\ out.args[3] # out.args[1].userId
    /\ out.result = FALSE

\* C30: shouldRefreshToken returns true exactly when the token is valid and
\* its expiry lies within the refresh threshold of two hours from now; it
\* returns false for an invalid token and for one with more than two hours left
C30_ShouldRefreshToken ==
    out.call = "shouldRefreshToken" =>
        LET token == out.args[1]
        IN  out.result <=>
                /\ verifyJWT(token)
                /\ token.exp - now <= TOKEN_REFRESH_THRESHOLD

\* ------------------------------------------------------- the browser client
\* the browser is the process p1: its local variables are what AuthContext
\* keeps in localStorage under auth_token and the auth_token cookie of its
\* cookie jar; the server's handlers run as the other process
Browser == "p1"
Server == "p2"
BrowserProc(localStorage, cookies) ==
    [pc |-> "browser", localStorage |-> localStorage, cookies |-> cookies]

InitClient ==
    /\ tenantPlan = [t \in Tenants |-> "FREE"]
    /\ users = SeedUsers
    /\ notes = SeedNotes
    /\ nextNoteId = Cardinality(SeedNotes) + 1
    /\ invitations = {}
    /\ nextInvId = 1
    /\ now = 0
    /\ proc = [p \in Procs |-> IF p = Browser THEN BrowserProc(NoToken, NoToken) ELSE Idle]
    /\ out = [status |-> 0, msg |-> None]

\* a page of the application as the browser asks for it: the cookie jar goes
\* with the request, localStorage does not
PageRequest(path, cookies) == Request("GET", path, "", 0, NoToken, cookies, NoHeaders)
PageServed(path) == [status |-> 200, msg |-> path]
ClientPages == {"/dashboard", "/notes", "/login"}

\* AuthContext.login: POST /api/auth/login; on an ok response the token of
\* the body goes into localStorage, and nothing is written to the cookie jar
\* (the login route sets no cookie either)
ClientLogin(email, password, found) ==
    /\ proc[Browser].pc = "browser"
    /\ proc[Server].pc = "idle"
    /\ found \in FindByEmail(email)
    /\ middleware(Request("POST", "/api/auth/login", "", 0, NoToken,
                          proc[Browser].cookies, NoHeaders)) = Forward
    /\ IF ValidEmail(email) /\ authenticateUser(email, comparePassword(password, found)) # {}
       THEN /\ out' = StatusLine(createApiResponse(<<>>, 200))
            /\ proc' = [proc EXCEPT ![Browser].localStorage = generateJWT(found)]
       ELSE /\ out' = StatusLine(createApiError("Invalid email or password", 401))
            /\ proc' = proc
    /\ UNCHANGED <<tenantPlan, users, notes, nextNoteId, invitations, nextInvId, now>>

\* router.push of the login page after a successful login, or any other
\* navigation: the middleware's frontend branch reads the auth_token cookie,
\* redirects to /login without a valid one and deletes an invalid one
ClientNavigate(path) ==
    /\ proc[Browser].pc = "browser"
    /\ LET req == PageRequest(path, proc[Browser].cookies)
       IN  IF middleware(req) = Forward
           THEN /\ out' = PageServed(path)
                /\ proc' = proc
           ELSE /\ out' = StatusLine(middleware(req))
                /\ proc' = [proc EXCEPT ![Browser].cookies = NoToken]
    /\ UNCHANGED <<tenantPlan, users, notes, nextNoteId, invitations, nextInvId, now>>

\* AuthContext.logout: localStorage is cleared and the browser loads /login
ClientLogout ==
    /\ proc[Browser].pc = "browser"
    /\ proc[Browser].localStorage.kind # "none"
    /\ out' = PageServed("/login")
    /\ proc' = [proc EXCEPT ![Browser].localStorage = NoToken]
    /\ UNCHANGED <<tenantPlan, users, notes, nextNoteId, invitations, nextInvId, now>>

\* useAuthenticatedFetch: the token of localStorage goes into the
\* Authorization header; a 401 logs the client out
ClientFetch(path, id) ==
    /\ proc[Browser].pc = "browser"
    /\ proc[Browser].localStorage.kind # "none"
    /\ LET req == Request("GET", path, "", id, proc[Browser].localStorage,
                          proc[Browser].cookies, NoHeaders)
       IN  IF middleware(req).status = 401
           THEN /\ out' = StatusLine(middleware(req))
                /\ proc' = [proc EXCEPT ![Browser].localStorage = NoToken]
                /\ UNCHANGED <<tenantPlan, users, notes, nextNoteId, invitations,
                               nextInvId, now>>
           ELSE Serve(Server, req)

\* the list of notes, and the notes 1 to MaxNoteId one by one
ClientFetches == {<<"/api/notes", 0>>} \cup {<<"/api/notes/[id]", id>> : id \in 1..MaxNoteId}

\* the dashboard's create form: POST /api/notes through useAuthenticatedFetch
ClientCreateNote(body) ==
    /\ proc[Browser].pc = "browser"
    /\ proc[Browser].localStorage.kind # "none"
    /\ LET req == Request("POST", "/api/notes", "", 0, proc[Browser].localStorage,
                          proc[Browser].cookies, NoHeaders)
       IN  IF middleware(req).status = 401
           THEN /\ out' = StatusLine(middleware(req))
                /\ proc' = [proc EXCEPT ![Browser].localStorage = NoToken]
                /\ UNCHANGED <<tenantPlan, users, notes, nextNoteId, invitations,
                               nextInvId, now>>
           ELSE NotesPOST_check(Server, req.auth.claims, body)

NextClient ==
    \/ \E email \in LoginEmails, password \in LoginPasswords, found \in users :
          ClientLogin(email, password, found)
    \/ \E path \in ClientPages : ClientNavigate(path)
    \/ ClientLogout
    \/ \E call \in ClientFetches : ClientFetch(call[1], call[2])
    \/ \E body \in PostBodies : ClientCreateNote(body)
    \/ NotesPOST_create(Server)
    \/ Tick

SpecClient == InitClient /\ [][NextClient]_vars

\* C29: after a successful login through the client, while the stored token
\* is still valid, a request for the page /dashboard is let through by the
\* middleware and not redirected to /login
C29_DashboardAfterLogin ==
    [][(/\ proc[Browser].pc = "browser"
        /\ jwtVerify(proc[Browser].localStorage)
        /\ ClientNavigate("/dashboard"))
       => out' = PageServed("/dashboard")]_vars


====
